---- MODULE Spec2Model ----
(***************************************************************************)
(* Model of the consent-state crawl and cross-visit aggregation engine of  *)
(* the cookie scanner server (GET /api/scan, server source embedded in     *)
(* src/components/ScanResultDisplay.tsx lines 1414-2870).                  *)
(*                                                                         *)
(* Specifications:                                                         *)
(*   Spec         the crawl loop of one scan request: frontier, visited    *)
(*                set, 3-stage sequence, merges into the canonical maps,   *)
(*                over every sitemap, link list and navigation outcome;    *)
(*   SpecMerge    the same crawl over every collection of cookies,         *)
(*                requests and storage items, on a two-page site;          *)
(*   SpecVerdict  the result assembly of one canonical record: the verdict *)
(*                computed for a cookie, a network request, a storage item *)
(*                from the oracle's answer, the cookie database and the    *)
(*                OneTrust classification;                                 *)
(*   SpecEntry    the crawl of a site without sitemap;                     *)
(*   SpecCollect  one call of collectPageData over every outcome of the    *)
(*                browser calls it awaits;                                 *)
(*   SpecConsent  one call of handleConsent over every set of frames and   *)
(*                every outcome of frame.evaluate;                         *)
(*   SpecScan     the life of one scan request, from the query string to   *)
(*                res.end(): validation, browser launch, crawl loop, the   *)
(*                classifier batches with their retries, the terminal      *)
(*                event, the release of the browser, the caller's          *)
(*                disconnection;                                           *)
(*   SpecLive     Spec when every awaited call settles;                    *)
(*   SpecTwo      two scan requests interleaved at their awaits;           *)
(*   SpecParty    the first/third-party label of a reported cookie;        *)
(*   SpecExpiry   getHumanReadableExpiry;                                  *)
(*   SpecGroup    the grouping of the tracker requests by hostname;        *)
(*   SpecDepth    the page budget computed from the depth parameter.       *)
(*                                                                         *)
(* A JavaScript Set is modelled as the duplicate-free sequence of its      *)
(* elements in insertion order, a Map as the sequence of its entries in    *)
(* insertion order.                                                        *)
(***************************************************************************)
EXTENDS Integers, Sequences, FiniteSets, TLC

VARIABLES
    \* ---- crawl (Spec) ----
    pc,                     \* position of the request handler
    urlsToVisit,            \* frontier: sequence of [url, priority]
    visitedUrls,            \* Set<string>
    allCookieMap,           \* Map key -> {states, data, pageUrls}
    allNetworkRequestMap,
    allLocalStorageMap,
    processedUrlPatterns,   \* Map normalizedPath -> count
    currentUrl,             \* URL of the current loop iteration
    collected,              \* result of the last collectPageData call of the iteration
    internalLinks,          \* links extracted from the page of the iteration
    consentBannerFound,
    consentClicks,          \* observation: the consent actions that clicked an element
    maxPages,               \* page budget of the request
    dequeueCount,           \* observation: number of times each URL left the frontier
    gotoCount,              \* observation: number of page.goto calls per URL
    stageLog,               \* observation: what the current loop iteration did, in order
    result,                 \* the terminal event sent to the caller ('result' or 'error')
    oracleCalled,           \* observation: ai.models.generateContent has been called
    \* ---- verdict (SpecVerdict) ----
    vRec,                   \* canonical record being assembled
    vAnalyzed,              \* analysisMap.get(key)
    vDb,                    \* findCookieInDatabase(name)?.category
    vOt,                    \* oneTrustClassifications.get(name)
    vOut,                   \* reported record
    \* ---- collectPageData (SpecCollect) ----
    cIn,                    \* what the browser does during one collectPageData call
    cOut,                   \* how the call ended: a value returned or an exception
    cListeners,             \* number of 'request' listeners attached to the page
    \* ---- handleConsent (SpecConsent) ----
    hPage,                  \* the frames of the page and what frame.evaluate does in them
    hOut,                   \* how the call ended
    hCalls,                 \* observation: the frame.evaluate calls made, in order
    \* ---- request handler (SpecScan) ----
    sPc,                    \* position of the handler
    sRawUrl,                \* req.query.url
    sBrowser,               \* "none", "open" or "closed"
    sEvents,                \* types of the events written to the response, in order
    sEnded,                 \* res.end() has been called
    sConnected,             \* the caller still holds the connection
    sFrontier,              \* number of frontier entries the loop has still to take
    sNavs,                  \* observation: page.goto calls made so far
    sItems,                 \* allItemsToAnalyze.length
    sBatches,               \* how each batch submitted so far ended: "answered", "failed", "blocked"
    sAttempt,               \* attempt of the current analyzeBatch call
    sCalls,                 \* observation: how each generateContent call of that call ended
    sReport,                \* category reported for each item by the result event
    \* ---- two requests (SpecTwo) ----
    tScans,                 \* per request: the variables of its handler closure
    \* ---- pure functions (SpecParty, SpecExpiry) ----
    fIn,                    \* arguments
    fOut                    \* value returned

crawlVars == <<pc, urlsToVisit, visitedUrls, allCookieMap, allNetworkRequestMap,
               allLocalStorageMap, processedUrlPatterns, currentUrl, collected,
               internalLinks, consentBannerFound, consentClicks, maxPages, dequeueCount, gotoCount,
               stageLog, result, oracleCalled>>
endVars == <<result, oracleCalled>>
verdictVars == <<vRec, vAnalyzed, vDb, vOt, vOut>>
collectVars == <<cIn, cOut, cListeners>>
consentVars == <<hPage, hOut, hCalls>>
scanVars == <<sPc, sRawUrl, sBrowser, sEvents, sEnded, sConnected, sFrontier, sNavs,
              sItems, sBatches, sAttempt, sCalls, sReport>>
twoVars == <<tScans>>
pureVars == <<fIn, fOut>>
restVars == <<scanVars, twoVars, pureVars>>
otherVars == <<verdictVars, collectVars, consentVars, restVars>>
vars == <<crawlVars, otherVars>>

(***************************************************************************)
(* Generic helpers                                                         *)
(***************************************************************************)
Range(s) == {s[i] : i \in 1..Len(s)}

\* Array.prototype.push in the place of Set.prototype.add
ArrayPush(s, x) == Append(s, x)

\* Set.prototype.add: insertion-ordered, no duplicates
SetAdd(s, x) == IF x \in Range(s) THEN s ELSE Append(s, x)

Undefined == "undefined"

\* JavaScript truthiness of an optional string (a || b picks b when a is falsy)
Falsy(x) == x = Undefined \/ x = ""
OrElse(x, d) == IF Falsy(x) THEN d ELSE x

(***************************************************************************)
(* Types (enum CookieCategory, enum ComplianceStatus)                      *)
(***************************************************************************)
NECESSARY == "Necessary"
ANALYTICS == "Analytics"
MARKETING == "Marketing"
FUNCTIONAL == "Functional"
UNKNOWN == "Unknown"
CookieCategory == {NECESSARY, ANALYTICS, MARKETING, FUNCTIONAL, UNKNOWN}

COMPLIANT == "Compliant"
PRE_CONSENT_VIOLATION == "Pre-Consent Violation"
POST_REJECTION_VIOLATION == "Post-Rejection Violation"
ComplianceStatus == {COMPLIANT, PRE_CONSENT_VIOLATION, POST_REJECTION_VIOLATION, UNKNOWN}

PRE_CONSENT == "pre-consent"
POST_REJECTION == "post-rejection"
POST_ACCEPTANCE == "post-acceptance"
ConsentState == {PRE_CONSENT, POST_REJECTION, POST_ACCEPTANCE}

(***************************************************************************)
(* Result assembly: verdict of one canonical record                        *)
(***************************************************************************)
\* String.prototype.toLowerCase on the category names the cookie database uses
ToLowerCase(str) ==
    CASE str = "Necessary" -> "necessary"
      [] str = "Functional" -> "functional"
      [] str = "Analytics" -> "analytics"
      [] str = "Marketing" -> "marketing"
      [] OTHER -> str

\* Category names of the cookie database (databaseEntry?.category)
DbCategories == {"Necessary", "Functional", "Analytics", "Marketing"}

\* OneTrust group names read from the page, with the words each contains lowercased
OtCategories == {"Strictly Necessary Cookies", "Essential", "Performance Cookies", "Targeting Cookies"}
OtWords(ot) ==
    CASE ot = "Strictly Necessary Cookies" -> {"strictly", "necessary", "cookies"}
      [] ot = "Essential" -> {"essential"}
      [] ot = "Performance Cookies" -> {"performance", "cookies"}
      [] ot = "Targeting Cookies" -> {"targeting", "cookies"}
      [] OTHER -> {}
\* otCategory.toLowerCase().includes(word)
OtIncludes(ot, word) == word \in OtWords(ot)

\* const aiCategory = analyzed?.category || CookieCategory.UNKNOWN
aiCategory(analyzed) == IF analyzed.has THEN OrElse(analyzed.category, UNKNOWN) ELSE UNKNOWN

isConsideredNecessary(aiCat, dbCategory, otCategory) ==
    /\ (aiCat = NECESSARY \/ aiCat = UNKNOWN)
    /\ (Falsy(dbCategory) \/ ToLowerCase(dbCategory) = "necessary"
                          \/ ToLowerCase(dbCategory) = "functional")
    /\ (Falsy(otCategory) \/ OtIncludes(otCategory, "necessary")
                          \/ OtIncludes(otCategory, "strictly")
                          \/ OtIncludes(otCategory, "essential"))

finalComplianceStatus(necessary, states) ==
    IF ~necessary
    THEN IF PRE_CONSENT \in states THEN PRE_CONSENT_VIOLATION
         ELSE IF POST_REJECTION \in states THEN POST_REJECTION_VIOLATION
         ELSE COMPLIANT
    ELSE COMPLIANT

\* remediation texts, as <<template, category interpolated into it>>
NoActionNeeded == <<"No action needed.", "">>
AnalysisIncomplete == <<"Analysis incomplete.", "">>
OracleText(r) == <<"oracle", r>>
originalRemediation(analyzed) ==
    IF analyzed.has /\ ~Falsy(analyzed.remediation)
    THEN OracleText(analyzed.remediation) ELSE AnalysisIncomplete

finalRemediation(status, aiCat, original) ==
    IF status = PRE_CONSENT_VIOLATION
    THEN <<"detected before user consent was given", aiCat>>
    ELSE IF status = POST_REJECTION_VIOLATION
    THEN <<"detected after the user rejected consent", aiCat>>
    ELSE IF status = COMPLIANT THEN NoActionNeeded
    ELSE original

\* one element of uniqueCookies
uniqueCookies(c, analyzed, dbCategory, otCategory) ==
    LET cat == aiCategory(analyzed)
        status == finalComplianceStatus(isConsideredNecessary(cat, dbCategory, otCategory), c.states)
    IN [reported |-> TRUE, kind |-> "cookie", category |-> cat,
        complianceStatus |-> status,
        remediation |-> finalRemediation(status, cat, originalRemediation(analyzed))]

NotReported == [reported |-> FALSE, kind |-> "network_request", category |-> UNKNOWN,
                complianceStatus |-> UNKNOWN, remediation |-> AnalysisIncomplete]

\* one element of analyzedTrackersWithInfo (pushed only if analyzed && analyzed.isTracker)
analyzedTrackersWithInfo(req, analyzed) ==
    IF analyzed.has /\ analyzed.isTracker
    THEN [reported |-> TRUE, kind |-> "network_request",
          category |-> OrElse(analyzed.category, UNKNOWN),
          complianceStatus |-> OrElse(analyzed.complianceStatus, UNKNOWN),
          remediation |-> originalRemediation(analyzed)]
    ELSE NotReported

\* one element of uniqueLocalStorage
uniqueLocalStorage(s, analyzed) ==
    [reported |-> TRUE, kind |-> "storage",
     category |-> IF analyzed.has THEN OrElse(analyzed.category, UNKNOWN) ELSE UNKNOWN,
     complianceStatus |-> IF analyzed.has THEN OrElse(analyzed.complianceStatus, UNKNOWN) ELSE UNKNOWN,
     remediation |-> originalRemediation(analyzed)]

(***************************************************************************)
(* SpecVerdict: inputs of the assembly drawn from their domains            *)
(***************************************************************************)
Kinds == {"cookie", "network_request", "storage"}

\* answers of the oracle for one item: any strings, inside or outside the enums
OracleCategories == CookieCategory \cup {""}
OracleStatuses == ComplianceStatus \cup {"", "Non-Compliant"}
OracleRemediations == {"", "text"}
NoAnalysis == [has |-> FALSE, category |-> Undefined, complianceStatus |-> Undefined,
               isTracker |-> FALSE, remediation |-> Undefined]
Analyses ==
    {NoAnalysis} \cup
    [has : {TRUE}, category : OracleCategories, complianceStatus : OracleStatuses,
     isTracker : BOOLEAN, remediation : OracleRemediations]

NoOut == [reported |-> FALSE, kind |-> "none", category |-> UNKNOWN,
          complianceStatus |-> UNKNOWN, remediation |-> AnalysisIncomplete]

VerdictInit ==
    /\ vRec \in [kind : Kinds, states : SUBSET ConsentState \ {{}}]
    /\ vAnalyzed \in Analyses
    /\ vDb \in IF vRec.kind = "cookie" THEN DbCategories \cup {Undefined} ELSE {Undefined}
    /\ vOt \in IF vRec.kind = "cookie" THEN OtCategories \cup {Undefined} ELSE {Undefined}
    /\ vOut = NoOut

AssembleCookie ==
    /\ vOut = NoOut /\ vRec.kind = "cookie"
    /\ vOut' = uniqueCookies(vRec, vAnalyzed, vDb, vOt)
    /\ UNCHANGED <<vRec, vAnalyzed, vDb, vOt>>

AssembleTracker ==
    /\ vOut = NoOut /\ vRec.kind = "network_request"
    /\ vOut' = analyzedTrackersWithInfo(vRec, vAnalyzed)
    /\ UNCHANGED <<vRec, vAnalyzed, vDb, vOt>>

AssembleStorage ==
    /\ vOut = NoOut /\ vRec.kind = "storage"
    /\ vOut' = uniqueLocalStorage(vRec, vAnalyzed)
    /\ UNCHANGED <<vRec, vAnalyzed, vDb, vOt>>

(***************************************************************************)
(* URLs.  A URL string is the record of its parsed parts; a hostname is    *)
(* the sequence of its characters, cut into chunks ("." is a chunk).       *)
(***************************************************************************)
WwwHost == <<"www", ".", "example", ".", "com">>
LookalikeHost == <<"evil", "example", ".", "com">>
OtherHost == <<"other", ".", "net">>

Url(h, p, q) == [valid |-> TRUE, host |-> h, path |-> p, query |-> q]
\* a string that new URL() rejects
BadUrl == [valid |-> FALSE, host |-> <<>>, path |-> <<>>, query |-> ""]

RootUrl == Url(WwwHost, <<>>, "")

\* String.prototype.split('.') on a hostname
RECURSIVE SplitDots(_, _, _)
SplitDots(s, cur, acc) ==
    IF s = <<>> THEN Append(acc, cur)
    ELSE IF Head(s) = "." THEN SplitDots(Tail(s), <<>>, Append(acc, cur))
    ELSE SplitDots(Tail(s), Append(cur, Head(s)), acc)

\* Array.prototype.join('.')
RECURSIVE JoinDots(_)
JoinDots(parts) ==
    IF parts = <<>> THEN <<>>
    ELSE IF Len(parts) = 1 THEN parts[1]
    ELSE parts[1] \o <<".">> \o JoinDots(Tail(parts))

Max(a, b) == IF a > b THEN a ELSE b

\* domainParts.slice(Math.max(domainParts.length - 2, 0)).join('.')
mainDomainOf(hostname) ==
    LET domainParts == SplitDots(hostname, <<>>, <<>>)
        from == Max(Len(domainParts) - 2, 0)
    IN JoinDots(SubSeq(domainParts, from + 1, Len(domainParts)))

mainDomain == mainDomainOf(RootUrl.host)

\* String.prototype.endsWith
EndsWith(str, suffix) ==
    /\ Len(suffix) <= Len(str)
    /\ SubSeq(str, Len(str) - Len(suffix) + 1, Len(str)) = suffix

\* path segments that the regular expressions of normalizeUrlPath rewrite
LongNumberSegments == {"20240101"}
LongSlugSegments == {"a-very-long-article-slug"}
commonPrefixes == {<<"jobs">>, <<"careers">>, <<"products">>, <<"blog">>, <<"news">>,
                   <<"articles">>, <<"listing">>, <<"en-us", "jobs">>}

normalizeUrlPath(path) ==
    IF \E prefix \in commonPrefixes :
          Len(path) > Len(prefix) /\ SubSeq(path, 1, Len(prefix)) = prefix
    THEN LET prefix == CHOOSE pr \in commonPrefixes :
                          Len(path) > Len(pr) /\ SubSeq(path, 1, Len(pr)) = pr
         IN Append(prefix, "[slug]")
    ELSE [i \in 1..Len(path) |->
            IF path[i] \in LongNumberSegments THEN "[longnumber]"
            ELSE IF path[i] \in LongSlugSegments THEN "[slug]"
            ELSE path[i]]

MAX_PATTERN_VISITS == 3

\* href.split('#')[0].split('?')[0]
StripQuery(u) == [u EXCEPT !.query = ""]

priorityKeywords == {"privacy", "policy", "terms", "conditions", "cookie", "contact", "about",
                     "legal", "login", "signin", "signup", "pricing", "dpa", "data-processing",
                     "security", "disclaimer", "imprint", "impressum", "user-agreement",
                     "terms-of-service", "terms-of-use"}

\* priority of a discovered link: keyword match on `${link.text} ${link.href}`
linkPriority(link) ==
    IF \E keyword \in priorityKeywords :
          keyword \in link.text \cup Range(link.href.path) \cup Range(link.href.host)
    THEN 1 ELSE 2

\* the same without the sort: the frontier is taken in the order of the pushes
SortSkipped(q) == q

\* urlsToVisit.sort((a, b) => a.priority - b.priority): a stable sort
SortByPriority(q) ==
    SelectSeq(q, LAMBDA e : e.priority = 0) \o SelectSeq(q, LAMBDA e : e.priority = 1)
      \o SelectSeq(q, LAMBDA e : e.priority = 2)

\* urlsToVisit.some(item => item.url === u)
InQueue(q, u) == \E i \in 1..Len(q) : q[i].url = u

(***************************************************************************)
(* Cross-visit aggregation: processItems / processLocalStorage             *)
(***************************************************************************)
\* map.has(key)
MapHas(map, key) == \E i \in 1..Len(map) : map[i].key = key
\* map.get(key)
MapGet(map, key) == map[CHOOSE i \in 1..Len(map) : map[i].key = key]
MapKeys(map) == {map[i].key : i \in 1..Len(map)}

\* map.set(key, ...) on every item: the record is created anew each time
processItemAlwaysSet(map, key, item, state, pageUrl) ==
    LET fresh == [key |-> key, states |-> <<state>>, data |-> item, pageUrls |-> <<pageUrl>>]
    IN IF ~MapHas(map, key) THEN Append(map, fresh)
       ELSE [i \in 1..Len(map) |-> IF map[i].key = key THEN fresh ELSE map[i]]

\* the payload of the latest observation replaces the stored one
processItemLastWins(map, key, item, state, pageUrl) ==
    LET m1 == IF ~MapHas(map, key)
              THEN Append(map, [key |-> key, states |-> <<>>, data |-> item, pageUrls |-> <<>>])
              ELSE map
    IN [i \in 1..Len(m1) |->
          IF m1[i].key = key
          THEN [m1[i] EXCEPT !.states = SetAdd(@, state), !.pageUrls = SetAdd(@, pageUrl),
                             !.data = item]
          ELSE m1[i]]

\* the same without pageUrls.add(pageUrl)
processItemWithoutPage(map, key, item, state, pageUrl) ==
    LET m1 == IF ~MapHas(map, key)
              THEN Append(map, [key |-> key, states |-> <<>>, data |-> item, pageUrls |-> <<>>])
              ELSE map
    IN [i \in 1..Len(m1) |->
          IF m1[i].key = key THEN [m1[i] EXCEPT !.states = SetAdd(@, state)] ELSE m1[i]]

\* body of the forEach of processItems / processLocalStorage for one item
processItem(map, key, item, state, pageUrl) ==
    LET m1 == IF ~MapHas(map, key)
              THEN Append(map, [key |-> key, states |-> <<>>, data |-> item, pageUrls |-> <<>>])
              ELSE map
    IN [i \in 1..Len(m1) |->
          IF m1[i].key = key
          THEN [m1[i] EXCEPT !.states = SetAdd(@, state), !.pageUrls = SetAdd(@, pageUrl)]
          ELSE m1[i]]

cookieKey(item) == <<item.name, item.domain, item.path>>
storageKey(item) == <<item.origin, item.key>>

RECURSIVE processItems(_, _, _, _, _)
processItems(map, items, state, isCookie, pageUrl) ==
    IF items = <<>> THEN map
    ELSE LET item == Head(items)
             key == IF isCookie THEN cookieKey(item) ELSE item.url
         IN processItems(processItem(map, key, item, state, pageUrl),
                         Tail(items), state, isCookie, pageUrl)

RECURSIVE processLocalStorage(_, _, _, _)
processLocalStorage(map, items, state, pageUrl) ==
    IF items = <<>> THEN map
    ELSE processLocalStorage(processItem(map, storageKey(Head(items)), Head(items), state, pageUrl),
                             Tail(items), state, pageUrl)

(***************************************************************************)
(* What a site can show: cookies, off-site requests, storage, links        *)
(***************************************************************************)
MaxRequests == 2        \* requests captured during one reload
MaxLinks == 2           \* anchors of one page
MaxSitemap == 1         \* URLs of the sitemap
MaxPages == 2           \* largest page budget

GaCookie(expires) == [name |-> "_ga", domain |-> ".example.com", path |-> "/", expires |-> expires]
\* the cookie jar: unique per name, domain and path; the expiry may differ between reads
CookieJars == {<<>>, <<GaCookie(100)>>, <<GaCookie(200)>>}

RequestItems == {[url |-> "https://www.google-analytics.com/collect", hostname |-> "www.google-analytics.com"]}

\* all sequences over S of length at most n
SeqsUpTo(S, n) == UNION {[1..k -> S] : k \in 0..n}
RequestLists == SeqsUpTo(RequestItems, MaxRequests)

StorageLists(pageUrl) ==
    {<<>>, <<[origin |-> "https://www.example.com", key |-> "uid", value |-> "v", pageUrl |-> pageUrl]>>}

NoCollected == [cookies |-> <<>>, networkRequests |-> <<>>, localStorageItems |-> <<>>]
\* possible results of collectPageData on the page at pageUrl
Collections(pageUrl) ==
    [cookies : CookieJars, networkRequests : RequestLists, localStorageItems : StorageLists(pageUrl)]
\* the same for a site whose pages set one cookie and nothing else
CookieOnlyCollections(pageUrl) ==
    [cookies : {<<GaCookie(100)>>}, networkRequests : {<<>>}, localStorageItems : {<<>>}]

\* <a href> elements a page may contain: resolved href and the words of its text
Anchors ==
    { [href |-> Url(WwwHost, <<"privacy">>, ""), text |-> {"read", "more"}],
      [href |-> Url(WwwHost, <<"jobs", "1">>, "?ref=nav"), text |-> {"more"}],
      [href |-> Url(WwwHost, <<>>, ""), text |-> {"home"}],
      [href |-> Url(LookalikeHost, <<>>, ""), text |-> {"partner"}],
      [href |-> Url(OtherHost, <<>>, ""), text |-> {"external"}] }
AnchorLists == SeqsUpTo(Anchors, MaxLinks)

\* <loc> entries a sitemap may contain
SitemapEntries ==
    { Url(WwwHost, <<>>, ""), Url(WwwHost, <<>>, "?lang=en"), Url(WwwHost, <<"privacy">>, ""),
      Url(OtherHost, <<>>, ""), BadUrl }
\* Array.from(Set): no entry twice
SitemapLists == {l \in SeqsUpTo(SitemapEntries, MaxSitemap) :
                    \A i, j \in 1..Len(l) : i # j => l[i] # l[j]}

PageBudgets == 1..MaxPages

(***************************************************************************)
(* The crawl of one scan request                                           *)
(***************************************************************************)
NoUrl == [valid |-> FALSE, host |-> <<>>, path |-> <<>>, query |-> "none"]

\* the event sent to the caller when the handler ends: sendEvent({type: 'result', payload})
\* or sendEvent({type: 'error', message}); the lists are given by the keys of their entries
Event(type, pages, cookies, trackers, storage, assessment) ==
    [type |-> type, pagesScannedCount |-> pages, uniqueCookies |-> cookies,
     uniqueTrackers |-> trackers, uniqueLocalStorage |-> storage, assessment |-> assessment]
NoResult == Event("none", 0, <<>>, {}, <<>>, "")
ErrorEvent == Event("error", 0, <<>>, {}, <<>>, "")
NoneDetected == "No cookies or trackers were detected."
OracleAssessment == "assessment of the oracle"

\* how an awaited call ended: a value returned, or an exception thrown to the caller
Returns(v) == [called |-> TRUE, threw |-> FALSE, value |-> v]
Throws(v) == [called |-> TRUE, threw |-> TRUE, value |-> v]
NotCalled(v) == [called |-> FALSE, threw |-> FALSE, value |-> v]

\* no call of collectPageData or handleConsent under study
NoCollectIn ==
    [createCDPSession |-> TRUE, reload |-> TRUE, scroll |-> TRUE, getAllCookies |-> TRUE,
     pageCookies |-> TRUE, detach |-> TRUE, evaluate |-> TRUE,
     cookies |-> <<>>, networkRequests |-> <<>>, localStorageItems |-> <<>>]
CollectIdle == cIn = NoCollectIn /\ cOut = NotCalled(NoCollected) /\ cListeners = 0
NoPage == [mainFrame |-> [detached |-> FALSE, evaluate |-> <<>>], childFrames |-> <<>>]
ConsentIdle == hPage = NoPage /\ hOut = NotCalled(FALSE) /\ hCalls = <<>>

\* no request handler, no pair of requests, no pure function under study
ScanIdle ==
    /\ sPc = "idle"
    /\ sRawUrl = <<>>
    /\ sBrowser = "none"
    /\ sEvents = <<>>
    /\ sEnded = FALSE
    /\ sConnected = TRUE
    /\ sFrontier = 0
    /\ sNavs = 0
    /\ sItems = 0
    /\ sBatches = <<>>
    /\ sAttempt = 0
    /\ sCalls = <<>>
    /\ sReport = <<>>
TwoIdle == tScans = <<>>
PureIdle == fIn = <<>> /\ fOut = ""
RestIdle == ScanIdle /\ TwoIdle /\ PureIdle

\* what one iteration of the crawl loop logs into stageLog
Screenshot == "screenshot"
ClickReject == "reject"
Reload == "reload"
ClickAccept == "accept"
Thrown == "pageError"
StageEvents(at) ==
    CASE at = "pre" -> <<Screenshot, PRE_CONSENT>>
      [] at = "rej" -> <<POST_REJECTION>>
      [] OTHER -> <<POST_ACCEPTANCE>>

\* counters kept as functions over the keys seen so far (Map.get(k) || 0)
CountOf(m, k) == IF k \in DOMAIN m THEN m[k] ELSE 0
Bump(m, k) == [x \in DOMAIN m \cup {k} |-> IF x = k THEN CountOf(m, k) + 1 ELSE m[x]]
NoCounts == [x \in {} |-> 0]

InitFor(budgets) ==
    /\ pc = "sitemap"
    /\ maxPages \in budgets
    /\ urlsToVisit = <<[url |-> RootUrl, priority |-> 0]>>
    /\ visitedUrls = <<>>
    /\ allCookieMap = <<>>
    /\ allNetworkRequestMap = <<>>
    /\ allLocalStorageMap = <<>>
    /\ processedUrlPatterns = NoCounts
    /\ currentUrl = NoUrl
    /\ collected = NoCollected
    /\ internalLinks = <<>>
    /\ consentBannerFound = FALSE
    /\ consentClicks = {}
    /\ dequeueCount = NoCounts
    /\ gotoCount = NoCounts
    /\ stageLog = <<>>
    /\ result = NoResult
    /\ oracleCalled = FALSE
    /\ vRec = [kind |-> "cookie", states |-> {PRE_CONSENT}]
    /\ vAnalyzed = NoAnalysis
    /\ vDb = Undefined
    /\ vOt = Undefined
    /\ vOut = NoOut
    /\ CollectIdle
    /\ ConsentIdle
    /\ RestIdle

\* sitemapPageUrls.forEach: push at priority 0 unless already queued
RECURSIVE seedSitemap(_, _)
seedSitemap(queue, sitemapPageUrls) ==
    IF sitemapPageUrls = <<>> THEN queue
    ELSE LET pageUrl == Head(sitemapPageUrls)
         IN seedSitemap(IF ~InQueue(queue, pageUrl)
                        THEN Append(queue, [url |-> pageUrl, priority |-> 0])
                        ELSE queue,
                        Tail(sitemapPageUrls))

\* the same without the try around the discovery and without the catch of parseSitemap:
\* a discovery that gives nothing ends the scan in catch (error)
SitemapDiscoveryUncaught(sitemaps) ==
    /\ pc = "sitemap"
    /\ \E sitemapPageUrls \in sitemaps :
          /\ urlsToVisit' = seedSitemap(urlsToVisit, sitemapPageUrls)
          /\ pc' = IF sitemapPageUrls = <<>> THEN "error" ELSE "loop"
          /\ result' = IF sitemapPageUrls = <<>> THEN ErrorEvent ELSE result
    /\ UNCHANGED <<visitedUrls, allCookieMap, allNetworkRequestMap, allLocalStorageMap,
                   processedUrlPatterns, currentUrl, collected, internalLinks, consentBannerFound, consentClicks,
                   maxPages, dequeueCount, gotoCount, stageLog, oracleCalled, otherVars>>

\* Sitemap discovery; a failure of the discovery leaves the queue as it is
SitemapDiscovery(sitemaps) ==
    /\ pc = "sitemap"
    /\ \E sitemapPageUrls \in sitemaps :
          urlsToVisit' = seedSitemap(urlsToVisit, sitemapPageUrls)
    /\ pc' = "loop"
    /\ UNCHANGED <<visitedUrls, allCookieMap, allNetworkRequestMap, allLocalStorageMap,
                   processedUrlPatterns, currentUrl, collected, internalLinks, consentBannerFound, consentClicks,
                   maxPages, dequeueCount, gotoCount, stageLog, endVars, otherVars>>

\* the loop test without the page budget
LoopGuardNoBudget == Len(urlsToVisit) > 0

\* while (urlsToVisit.length > 0 && visitedUrls.size < maxPages)
LoopGuard == Len(urlsToVisit) > 0 /\ Len(visitedUrls) < maxPages

LoopExit ==
    /\ pc = "loop"
    /\ ~LoopGuard
    /\ pc' = "crawl_done"
    /\ UNCHANGED <<urlsToVisit, visitedUrls, allCookieMap, allNetworkRequestMap,
                   allLocalStorageMap, processedUrlPatterns, currentUrl, collected,
                   internalLinks, consentBannerFound, consentClicks, maxPages, dequeueCount, gotoCount, stageLog, endVars, otherVars>>

\* where the iteration goes after the dequeue, and the pattern counters it leaves, in
\* a scan whose entry URL has the main domain given
AfterDequeueIn(domain, url, visited, patterns) ==
    IF url \in Range(visited) THEN [pc |-> "loop", patterns |-> patterns]
    ELSE IF ~url.valid THEN [pc |-> "error", patterns |-> patterns]   \* new URL(currentUrl) throws
    ELSE LET normalizedPath == normalizeUrlPath(url.path)
             patternCount == CountOf(patterns, normalizedPath)
         IN IF patternCount >= MAX_PATTERN_VISITS THEN [pc |-> "loop", patterns |-> patterns]
            ELSE IF ~EndsWith(url.host, domain)
                 THEN [pc |-> "loop", patterns |-> Bump(patterns, normalizedPath)]
                 ELSE [pc |-> "goto", patterns |-> Bump(patterns, normalizedPath)]

AfterDequeue(url, visited, patterns) == AfterDequeueIn(mainDomain, url, visited, patterns)

\* head of one loop iteration: sort, shift, visited check, pattern limit, domain check
Dequeue ==
    /\ pc = "loop"
    /\ LoopGuard
    /\ LET sorted == SortByPriority(urlsToVisit)
           currentItem == Head(sorted)
           after == AfterDequeue(currentItem.url, visitedUrls, processedUrlPatterns)
       IN /\ urlsToVisit' = Tail(sorted)
          /\ dequeueCount' = Bump(dequeueCount, currentItem.url)
          /\ currentUrl' = currentItem.url
          /\ processedUrlPatterns' = after.patterns
          /\ pc' = after.pc
          \* an exception outside the page try block ends the scan: catch (error)
          /\ result' = IF after.pc = "error" THEN ErrorEvent ELSE result
    /\ collected' = NoCollected        \* the constants of the previous iteration are gone
    /\ internalLinks' = <<>>
    /\ stageLog' = <<>>
    /\ UNCHANGED <<visitedUrls, allCookieMap, allNetworkRequestMap, allLocalStorageMap,
                   consentBannerFound, consentClicks, maxPages, gotoCount, oracleCalled, otherVars>>

\* the same with the 3-stage sequence entered on every page
GotoOkThreeStageAlways ==
    /\ pc = "goto"
    /\ gotoCount' = Bump(gotoCount, currentUrl)
    /\ visitedUrls' = SetAdd(visitedUrls, currentUrl)
    /\ pc' = "pre"
    /\ UNCHANGED <<urlsToVisit, allCookieMap, allNetworkRequestMap, allLocalStorageMap,
                   processedUrlPatterns, currentUrl, collected, internalLinks, consentBannerFound, consentClicks,
                   maxPages, dequeueCount, stageLog, endVars, otherVars>>

\* await page.goto(currentUrl) resolves; visitedUrls.add(currentUrl)
GotoOk ==
    /\ pc = "goto"
    /\ gotoCount' = Bump(gotoCount, currentUrl)
    /\ visitedUrls' = SetAdd(visitedUrls, currentUrl)
    /\ pc' = IF Len(visitedUrls') = 1 THEN "pre" ELSE "sub"
    /\ UNCHANGED <<urlsToVisit, allCookieMap, allNetworkRequestMap, allLocalStorageMap,
                   processedUrlPatterns, currentUrl, collected, internalLinks, consentBannerFound, consentClicks,
                   maxPages, dequeueCount, stageLog, endVars, otherVars>>

\* await page.goto(currentUrl) rejects: caught by catch (pageError)
GotoFail ==
    /\ pc = "goto"
    /\ gotoCount' = Bump(gotoCount, currentUrl)
    /\ stageLog' = Append(stageLog, Thrown)
    /\ pc' = "loop"
    /\ UNCHANGED <<urlsToVisit, visitedUrls, allCookieMap, allNetworkRequestMap,
                   allLocalStorageMap, processedUrlPatterns, currentUrl, collected,
                   internalLinks, consentBannerFound, consentClicks, maxPages, dequeueCount, endVars, otherVars>>

\* the results drawn for a page: all three kinds, or cookies only
ResultsOf(rich, pageUrl) ==
    IF rich THEN Collections(pageUrl) ELSE CookieOnlyCollections(pageUrl)

\* collectPageData followed by the three merges under one consent state
Observe(at, state, next, rich) ==
    /\ pc = at
    /\ \E c \in ResultsOf(rich, currentUrl) :
          /\ collected' = c
          /\ allCookieMap' = processItems(allCookieMap, c.cookies, state, TRUE, currentUrl)
          /\ allNetworkRequestMap' =
                processItems(allNetworkRequestMap, c.networkRequests, state, FALSE, currentUrl)
          /\ allLocalStorageMap' =
                processLocalStorage(allLocalStorageMap, c.localStorageItems, state, currentUrl)
    /\ stageLog' = stageLog \o StageEvents(at)
    /\ pc' = next
    /\ UNCHANGED <<urlsToVisit, visitedUrls, processedUrlPatterns, currentUrl,
                   internalLinks, consentBannerFound, consentClicks, maxPages, dequeueCount, gotoCount, endVars, otherVars>>

\* the pre-consent collection followed at once by the reload and the accept action
ObservePreConsentThenReload(rich) == Observe("pre", PRE_CONSENT, "reload", rich)
ObservePreConsent(rich) == Observe("pre", PRE_CONSENT, "reject", rich)
ObservePostRejection(rich) == Observe("rej", POST_REJECTION, "reload", rich)
ObservePostAcceptance(rich) == Observe("acc", POST_ACCEPTANCE, "links", rich)
ObserveSubsequent(rich) == Observe("sub", POST_ACCEPTANCE, "links", rich)

\* consentBannerFound = await handleConsent(page, 'reject')
HandleReject ==
    /\ pc = "reject"
    /\ \E clicked \in BOOLEAN :
          /\ consentBannerFound' = clicked
          /\ consentClicks' = IF clicked THEN {ClickReject} ELSE {}
    /\ stageLog' = Append(stageLog, ClickReject)
    /\ pc' = "rej"
    /\ UNCHANGED <<urlsToVisit, visitedUrls, allCookieMap, allNetworkRequestMap,
                   allLocalStorageMap, processedUrlPatterns, currentUrl, collected,
                   internalLinks, maxPages, dequeueCount, gotoCount, endVars, otherVars>>

\* the same with the links extracted right after the accept action
ReloadAndAcceptSkipsCollection ==
    /\ pc = "reload"
    /\ stageLog' = stageLog \o <<Reload, ClickAccept>>
    /\ \E clicked \in BOOLEAN :
          consentClicks' = IF clicked THEN consentClicks \cup {ClickAccept} ELSE consentClicks
    /\ pc' = "links"
    /\ UNCHANGED <<urlsToVisit, visitedUrls, allCookieMap, allNetworkRequestMap,
                   allLocalStorageMap, processedUrlPatterns, currentUrl, collected,
                   internalLinks, consentBannerFound, maxPages, dequeueCount, gotoCount,
                   endVars, otherVars>>

\* await page.reload(); await handleConsent(page, 'accept'): what the call returns
\* is not kept
ReloadAndAccept ==
    /\ pc = "reload"
    /\ stageLog' = stageLog \o <<Reload, ClickAccept>>
    /\ \E clicked \in BOOLEAN :
          consentClicks' = IF clicked THEN consentClicks \cup {ClickAccept} ELSE consentClicks
    /\ pc' = "acc"
    /\ UNCHANGED <<urlsToVisit, visitedUrls, allCookieMap, allNetworkRequestMap,
                   allLocalStorageMap, processedUrlPatterns, currentUrl, collected,
                   internalLinks, consentBannerFound, maxPages, dequeueCount, gotoCount,
                   endVars, otherVars>>

\* the page.evaluate that extracts the links: same-domain filter, strip, first text wins
RECURSIVE extractInternalLinksIn(_, _, _)
extractInternalLinksIn(domain, anchors, links) ==
    IF anchors = <<>> THEN links
    ELSE LET anchor == Head(anchors)
             href == StripQuery(anchor.href)
         IN extractInternalLinksIn(domain, Tail(anchors),
                IF anchor.href.valid /\ EndsWith(anchor.href.host, domain)
                   /\ ~(\E i \in 1..Len(links) : links[i].href = href)
                THEN Append(links, [href |-> href, text |-> anchor.text])
                ELSE links)

extractInternalLinks(anchors, links) == extractInternalLinksIn(mainDomain, anchors, links)

\* the same without the visitedUrls.has(link.href) test
RECURSIVE enqueueLinksUnvisitedUnchecked(_, _, _)
enqueueLinksUnvisitedUnchecked(queue, links, visited) ==
    IF links = <<>> THEN queue
    ELSE LET link == Head(links)
         IN enqueueLinksUnvisitedUnchecked(
                IF ~InQueue(queue, link.href)
                THEN Append(queue, [url |-> link.href, priority |-> linkPriority(link)])
                ELSE queue,
                Tail(links), visited)

\* internalLinks.forEach: push the links neither visited nor queued
RECURSIVE enqueueLinks(_, _, _)
enqueueLinks(queue, links, visited) ==
    IF links = <<>> THEN queue
    ELSE LET link == Head(links)
         IN enqueueLinks(IF link.href \notin Range(visited) /\ ~InQueue(queue, link.href)
                         THEN Append(queue, [url |-> link.href, priority |-> linkPriority(link)])
                         ELSE queue,
                         Tail(links), visited)

\* the lists the extraction can return for the pages of a site
LinkListsOf(anchorLists) == {extractInternalLinks(anchors, <<>>) : anchors \in anchorLists}

ExtractLinks(linkLists) ==
    /\ pc = "links"
    /\ \E links \in linkLists :
          /\ internalLinks' = links
          /\ urlsToVisit' = enqueueLinks(urlsToVisit, links, visitedUrls)
    /\ pc' = "loop"
    /\ UNCHANGED <<visitedUrls, allCookieMap, allNetworkRequestMap, allLocalStorageMap,
                   processedUrlPatterns, currentUrl, collected, consentBannerFound, consentClicks,
                   maxPages, dequeueCount, gotoCount, stageLog, endVars, otherVars>>

\* an awaited browser call of the page block rejects: catch (pageError), next iteration
AwaitingPcs == {"pre", "rej", "reload", "acc", "sub", "links"}
PageError ==
    /\ pc \in AwaitingPcs
    /\ stageLog' = Append(stageLog, Thrown)
    /\ pc' = "loop"
    /\ UNCHANGED <<urlsToVisit, visitedUrls, allCookieMap, allNetworkRequestMap,
                   allLocalStorageMap, processedUrlPatterns, currentUrl, collected,
                   internalLinks, consentBannerFound, consentClicks, maxPages, dequeueCount, gotoCount, endVars, otherVars>>

\* allItemsToAnalyze: the records of the three maps, each with its type
allItemsToAnalyze ==
    [i \in 1..Len(allCookieMap) |-> [type |-> "cookie", key |-> allCookieMap[i].key]]
      \o [i \in 1..Len(allNetworkRequestMap) |->
            [type |-> "network_request", key |-> allNetworkRequestMap[i].key]]
      \o [i \in 1..Len(allLocalStorageMap) |-> [type |-> "storage", key |-> allLocalStorageMap[i].key]]

\* if (allItemsToAnalyze.length === 0): the result is sent without asking the oracle
EmptyResult ==
    /\ pc = "crawl_done"
    /\ allItemsToAnalyze = <<>>
    /\ result' = Event("result", Len(visitedUrls), <<>>, {}, <<>>, NoneDetected)
    /\ pc' = "result"
    /\ UNCHANGED <<urlsToVisit, visitedUrls, allCookieMap, allNetworkRequestMap,
                   allLocalStorageMap, processedUrlPatterns, currentUrl, collected,
                   internalLinks, consentBannerFound, consentClicks, maxPages, dequeueCount, gotoCount,
                   stageLog, oracleCalled, otherVars>>

\* every batch is answered within its attempts and the compliance call is answered:
\* the result event; the trackers reported are those the oracle marked
AnalyzeOk ==
    /\ pc = "crawl_done"
    /\ allItemsToAnalyze # <<>>
    /\ oracleCalled' = TRUE
    /\ \E trackers \in SUBSET {allNetworkRequestMap[i].data.hostname :
                                  i \in 1..Len(allNetworkRequestMap)} :
          result' = Event("result", Len(visitedUrls),
                          [i \in 1..Len(allCookieMap) |-> allCookieMap[i].key], trackers,
                          [i \in 1..Len(allLocalStorageMap) |-> allLocalStorageMap[i].key],
                          OracleAssessment)
    /\ pc' = "result"
    /\ UNCHANGED <<urlsToVisit, visitedUrls, allCookieMap, allNetworkRequestMap,
                   allLocalStorageMap, processedUrlPatterns, currentUrl, collected,
                   internalLinks, consentBannerFound, consentClicks, maxPages, dequeueCount, gotoCount,
                   stageLog, otherVars>>

\* a batch fails on its last attempt or is blocked, or the compliance call fails: the
\* exception reaches catch (error) of the handler
AnalyzeFail ==
    /\ pc = "crawl_done"
    /\ allItemsToAnalyze # <<>>
    /\ oracleCalled' = TRUE
    /\ result' = ErrorEvent
    /\ pc' = "error"
    /\ UNCHANGED <<urlsToVisit, visitedUrls, allCookieMap, allNetworkRequestMap,
                   allLocalStorageMap, processedUrlPatterns, currentUrl, collected,
                   internalLinks, consentBannerFound, consentClicks, maxPages, dequeueCount, gotoCount,
                   stageLog, otherVars>>

\* the steps of the crawl over a site with the given sitemaps, pages and links
Crawl(sitemaps, rich, linkLists) ==
    \/ SitemapDiscovery(sitemaps)
    \/ LoopExit
    \/ Dequeue
    \/ GotoOk
    \/ GotoFail
    \/ ObservePreConsent(rich)
    \/ HandleReject
    \/ ObservePostRejection(rich)
    \/ ReloadAndAccept
    \/ ObservePostAcceptance(rich)
    \/ ObserveSubsequent(rich)
    \/ ExtractLinks(linkLists)
    \/ PageError
    \/ EmptyResult
    \/ AnalyzeOk
    \/ AnalyzeFail

\* Spec: every sitemap, every link list, every navigation outcome; one cookie
Init == InitFor(PageBudgets)
LinkLists == LinkListsOf(AnchorLists)
Next == Crawl(SitemapLists, FALSE, LinkLists)
Spec == Init /\ [][Next]_vars

\* SpecLive: the same crawl when every awaited call settles: page.goto and the other
\* browser calls have timeouts, the oracle call resolves or rejects
SpecLive == Spec /\ WF_vars(Next)

\* SpecMerge: every collection of cookies, requests and storage items; a site of
\* MergePages pages without sitemap whose pages link to the privacy page
MergePages == 2
MergeAnchorLists == {<<>>, <<[href |-> Url(WwwHost, <<"privacy">>, ""), text |-> {"read", "more"}]>>}
InitMerge == InitFor({MergePages})
MergeLinkLists == LinkListsOf(MergeAnchorLists)
NextMerge == Crawl({<<>>}, TRUE, MergeLinkLists)
SpecMerge == InitMerge /\ [][NextMerge]_vars

\* SpecEntry: the crawl of a site without sitemap: the frontier starts with the entry URL
NextEntry == Crawl({<<>>}, FALSE, LinkLists)
SpecEntry == Init /\ [][NextEntry]_vars

(***************************************************************************)
(* SpecVerdict                                                             *)
(***************************************************************************)
VerdictStart ==
    /\ pc = "assemble"
    /\ maxPages = 1
    /\ urlsToVisit = <<>>
    /\ visitedUrls = <<>>
    /\ allCookieMap = <<>>
    /\ allNetworkRequestMap = <<>>
    /\ allLocalStorageMap = <<>>
    /\ processedUrlPatterns = NoCounts
    /\ currentUrl = NoUrl
    /\ collected = NoCollected
    /\ internalLinks = <<>>
    /\ consentBannerFound = FALSE
    /\ consentClicks = {}
    /\ dequeueCount = NoCounts
    /\ gotoCount = NoCounts
    /\ stageLog = <<>>
    /\ result = NoResult
    /\ oracleCalled = FALSE
    /\ CollectIdle
    /\ ConsentIdle
    /\ RestIdle
    /\ VerdictInit

VerdictNext ==
    \/ AssembleCookie /\ UNCHANGED <<crawlVars, collectVars, consentVars, restVars>>
    \/ AssembleTracker /\ UNCHANGED <<crawlVars, collectVars, consentVars, restVars>>
    \/ AssembleStorage /\ UNCHANGED <<crawlVars, collectVars, consentVars, restVars>>

SpecVerdict == VerdictStart /\ [][VerdictNext]_vars

(***************************************************************************)
(* SpecCollect: one call of collectPageData                                *)
(***************************************************************************)
\* the handler is not crawling: the function under study is called at position p
CrawlIdle(p) ==
    /\ pc = p
    /\ maxPages = 1
    /\ urlsToVisit = <<>>
    /\ visitedUrls = <<>>
    /\ allCookieMap = <<>>
    /\ allNetworkRequestMap = <<>>
    /\ allLocalStorageMap = <<>>
    /\ processedUrlPatterns = NoCounts
    /\ currentUrl = NoUrl
    /\ collected = NoCollected
    /\ internalLinks = <<>>
    /\ consentBannerFound = FALSE
    /\ consentClicks = {}
    /\ dequeueCount = NoCounts
    /\ gotoCount = NoCounts
    /\ stageLog = <<>>
    /\ result = NoResult
    /\ oracleCalled = FALSE
VerdictIdle ==
    /\ vRec = [kind |-> "cookie", states |-> {PRE_CONSENT}]
    /\ vAnalyzed = NoAnalysis
    /\ vDb = Undefined
    /\ vOt = Undefined
    /\ vOut = NoOut

\* what the browser does during one call: for each awaited call whether it resolves
\* (TRUE) or rejects, and the data the page holds
CollectInputs ==
    [createCDPSession : BOOLEAN, reload : BOOLEAN, scroll : BOOLEAN, getAllCookies : BOOLEAN,
     pageCookies : BOOLEAN, detach : BOOLEAN, evaluate : BOOLEAN,
     cookies : {<<>>, <<GaCookie(100)>>}, networkRequests : RequestLists,
     localStorageItems : StorageLists(RootUrl)]

\* the cookie read: CDP Network.getAllCookies, page.cookies() when that fails or when
\* there is no CDP session; finally cdpSession.detach()
readCookies(in) ==
    IF in.createCDPSession
    THEN LET read == IF in.getAllCookies \/ in.pageCookies
                     THEN Returns(in.cookies) ELSE Throws(<<>>)
         IN IF in.detach THEN read ELSE Throws(<<>>)
    ELSE IF in.pageCookies THEN Returns(in.cookies) ELSE Throws(<<>>)

\* collectPageData: the CDP session and the scroll are inside try/catch; page.reload,
\* the cookie read and the page.evaluate that reads the storage are not
collectPageData(in) ==
    IF ~in.reload THEN Throws(NoCollected)
    ELSE LET cookies == readCookies(in)
         IN IF cookies.threw THEN Throws(NoCollected)
            ELSE IF ~in.evaluate THEN Throws(NoCollected)
            ELSE Returns([cookies |-> cookies.value, networkRequests |-> in.networkRequests,
                          localStorageItems |-> in.localStorageItems])

\* page.on('request', requestListener) is called before the reload; page.off is the
\* last statement before the return and nothing else removes the listener
requestListenersAfter(listeners, in) ==
    LET attached == listeners + 1
    IN IF collectPageData(in).threw THEN attached ELSE attached - 1

CollectStart ==
    /\ CrawlIdle("collect")
    /\ VerdictIdle
    /\ ConsentIdle
    /\ RestIdle
    /\ cIn \in CollectInputs
    /\ cOut = NotCalled(NoCollected)
    /\ cListeners = 0

Collect ==
    /\ pc = "collect"
    /\ ~cOut.called
    /\ cOut' = collectPageData(cIn)
    /\ cListeners' = requestListenersAfter(cListeners, cIn)
    /\ UNCHANGED <<crawlVars, verdictVars, consentVars, restVars, cIn>>

SpecCollect == CollectStart /\ [][Collect]_vars

(***************************************************************************)
(* SpecConsent: one call of handleConsent                                  *)
(***************************************************************************)
MaxKeywords == 2        \* keywords tried in a frame
MaxFrames == 1          \* frames of the page besides the main frame

\* what frame.evaluate does for one keyword: the button is found and clicked (and the
\* network becomes idle or the wait times out), no button matches, or the call rejects
Clicked == "clicked"
ClickedNotIdle == "clicked, waitForNetworkIdle rejects"
Absent == "absent"
Rejects == "rejects"
EvaluateOutcomes == {Clicked, ClickedNotIdle, Absent, Rejects}

\* a frame: detached when handleConsent looks at it (then every evaluate rejects), or
\* attached, in which case it may still detach during the search
Frames ==
    {[detached |-> TRUE, evaluate |-> [k \in 1..MaxKeywords |-> Rejects]]}
      \cup [detached : {FALSE}, evaluate : [1..MaxKeywords -> EvaluateOutcomes]]
Pages == [mainFrame : Frames, childFrames : SeqsUpTo(Frames, MaxFrames)]

\* the same without the try/catch around frame.evaluate
RECURSIVE findAndClickButtonUncaught(_)
findAndClickButtonUncaught(evaluate) ==
    IF evaluate = <<>> THEN Returns(FALSE)
    ELSE IF Head(evaluate) \in {Clicked, ClickedNotIdle} THEN Returns(TRUE)
    ELSE IF Head(evaluate) = Rejects THEN Throws(FALSE)
    ELSE findAndClickButtonUncaught(Tail(evaluate))

\* findAndClickButton: for each keyword, try { evaluate; if clicked, wait for the network
\* inside its own try/catch, return true } catch { warn }; return false
RECURSIVE findAndClickButton(_)
findAndClickButton(evaluate) ==
    IF evaluate = <<>> THEN Returns(FALSE)
    ELSE IF Head(evaluate) \in {Clicked, ClickedNotIdle} THEN Returns(TRUE)
    ELSE findAndClickButton(Tail(evaluate))

\* the for loop over page.frames(): detached frames are skipped
RECURSIVE searchFrames(_)
searchFrames(frames) ==
    IF frames = <<>> THEN Returns(FALSE)
    ELSE IF Head(frames).detached THEN searchFrames(Tail(frames))
    ELSE LET found == findAndClickButton(Head(frames).evaluate)
         IN IF found.threw \/ found.value THEN found ELSE searchFrames(Tail(frames))

\* the same going on with the next keywords after a click
RECURSIVE evaluateCallsNoReturn(_, _, _)
evaluateCallsNoReturn(frame, evaluate, k) ==
    IF k > Len(evaluate) THEN <<>>
    ELSE <<[frame |-> frame, keyword |-> k,
            clicked |-> evaluate[k] \in {Clicked, ClickedNotIdle}]>>
           \o evaluateCallsNoReturn(frame, evaluate, k + 1)

\* the frame.evaluate calls of findAndClickButton in one frame, from keyword k on: one
\* per keyword in list order, the last one being the call that clicked
RECURSIVE evaluateCalls(_, _, _)
evaluateCalls(frame, evaluate, k) ==
    IF k > Len(evaluate) THEN <<>>
    ELSE LET clicked == evaluate[k] \in {Clicked, ClickedNotIdle}
         IN <<[frame |-> frame, keyword |-> k, clicked |-> clicked]>>
              \o (IF clicked THEN <<>> ELSE evaluateCalls(frame, evaluate, k + 1))

Hit(calls) == \E i \in 1..Len(calls) : calls[i].clicked

\* the calls made in the child frames, numbered from i, in the order of page.frames()
RECURSIVE frameCalls(_, _)
frameCalls(frames, i) ==
    IF frames = <<>> THEN <<>>
    ELSE IF Head(frames).detached THEN frameCalls(Tail(frames), i + 1)
    ELSE LET calls == evaluateCalls(i, Head(frames).evaluate, 1)
         IN calls \o (IF Hit(calls) THEN <<>> ELSE frameCalls(Tail(frames), i + 1))

\* the calls of one handleConsent: the main frame (numbered 0) with every keyword, then
\* each child frame with every keyword
consentCalls(page) ==
    LET calls == evaluateCalls(0, page.mainFrame.evaluate, 1)
    IN calls \o (IF Hit(calls) THEN <<>> ELSE frameCalls(page.childFrames, 1))

handleConsent(page) ==
    LET found == findAndClickButton(page.mainFrame.evaluate)
    IN IF found.threw \/ found.value THEN found ELSE searchFrames(page.childFrames)

ConsentStart ==
    /\ CrawlIdle("consent")
    /\ VerdictIdle
    /\ CollectIdle
    /\ RestIdle
    /\ hPage \in Pages
    /\ hOut = NotCalled(FALSE)
    /\ hCalls = <<>>

HandleConsent ==
    /\ pc = "consent"
    /\ ~hOut.called
    /\ hOut' = handleConsent(hPage)
    /\ hCalls' = consentCalls(hPage)
    /\ UNCHANGED <<crawlVars, verdictVars, collectVars, restVars, hPage>>

SpecConsent == ConsentStart /\ [][HandleConsent]_vars

(***************************************************************************)
(* SpecScan: the life of one scan request                                  *)
(***************************************************************************)
BATCH_SIZE == 25
maxRetries == 2
MaxFrontier == 2        \* frontier entries the crawl loop takes
MaxBatches == 2         \* batches of the analysis

\* req.query.url as the query parser hands it over, character by character; Origin
\* stands for the characters of a scheme and a host ("https://example.com/")
Origin == "https://example.com/"
RawUrls ==
    {<<>>, <<Origin>>, <<Origin, "x">>, <<Origin, "%", "4", "4">>, <<Origin, "%">>,
     <<Origin, "%", "4">>, <<Origin, "%", "x", "4">>, <<"x">>, <<"%", "4", "4">>}
HexDigits == {"4"}

\* decodeURIComponent: "%" and two hexadecimal digits are one character ("%44" is "D");
\* any other "%" makes it throw URIError
RECURSIVE decodeURIComponent(_)
decodeURIComponent(str) ==
    IF str = <<>> THEN Returns(<<>>)
    ELSE IF Head(str) = "%"
    THEN IF Len(str) >= 3 /\ str[2] \in HexDigits /\ str[3] \in HexDigits
         THEN LET rest == decodeURIComponent(SubSeq(str, 4, Len(str)))
              IN IF rest.threw THEN rest ELSE Returns(<<"D">> \o rest.value)
         ELSE Throws(<<>>)
    ELSE LET rest == decodeURIComponent(Tail(str))
         IN IF rest.threw THEN rest ELSE Returns(<<Head(str)>> \o rest.value)

\* new URL(url) accepts an absolute URL: a scheme and a host first
ParsesAsUrl(url) == url # <<>> /\ Head(url) = Origin

\* sendEvent: res.write of one event; writing to a connection the caller has closed
\* neither throws nor tells the handler
sendEvent(type) == sEvents' = Append(sEvents, type)

\* the code from the query string to the first try: !rawUrl and the invalid URL send an
\* error and end the response; decodeURIComponent is called outside any try, so its
\* URIError rejects the promise of the async handler, which nothing awaits
ValidateRequest ==
    /\ sPc = "request"
    /\ IF sRawUrl = <<>>
       THEN sendEvent("error") /\ sEnded' = TRUE /\ sPc' = "done"
       ELSE IF decodeURIComponent(sRawUrl).threw
       THEN sPc' = "rejected" /\ UNCHANGED <<sEvents, sEnded>>
       ELSE IF ~ParsesAsUrl(decodeURIComponent(sRawUrl).value)
       THEN sendEvent("error") /\ sEnded' = TRUE /\ sPc' = "done"
       ELSE sPc' = "launch" /\ UNCHANGED <<sEvents, sEnded>>
    /\ UNCHANGED <<sRawUrl, sBrowser, sConnected, sFrontier, sNavs, sItems, sBatches,
                   sAttempt, sReport, sCalls>>

\* puppeteer.launch resolves, the page is set up; the frontier holds the entry URL and
\* what the sitemap gave
LaunchOk ==
    /\ sPc = "launch"
    /\ sendEvent("log")
    /\ sBrowser' = "open"
    /\ sFrontier' \in 1..MaxFrontier
    /\ sPc' = "crawl"
    /\ UNCHANGED <<sRawUrl, sEnded, sConnected, sNavs, sItems, sBatches, sAttempt, sReport, sCalls>>

\* puppeteer.launch rejects: browser is still null in catch and finally
LaunchFail ==
    /\ sPc = "launch"
    /\ sendEvent("log")
    /\ sPc' = "catch"
    /\ UNCHANGED <<sRawUrl, sBrowser, sEnded, sConnected, sFrontier, sNavs, sItems,
                   sBatches, sAttempt, sReport, sCalls>>

\* browser.newPage, setUserAgent or setViewport rejects after the launch
NewPageFail ==
    /\ sPc = "launch"
    /\ sendEvent("log")
    /\ sBrowser' = "open"
    /\ sPc' = "catch"
    /\ UNCHANGED <<sRawUrl, sEnded, sConnected, sFrontier, sNavs, sItems, sBatches,
                   sAttempt, sReport, sCalls>>

\* one iteration of while (urlsToVisit.length > 0 && visitedUrls.size < maxPages): the
\* entry is taken and page.goto is called; the condition reads nothing but the frontier
\* and the visited set
CrawlPage ==
    /\ sPc = "crawl"
    /\ sFrontier > 0
    /\ sendEvent("log")
    /\ sNavs' = sNavs + 1
    /\ sFrontier' = sFrontier - 1
    /\ UNCHANGED <<sPc, sRawUrl, sBrowser, sEnded, sConnected, sItems, sBatches, sAttempt,
                   sReport, sCalls>>

\* new URL(currentUrl).pathname on an entry that does not parse: outside the try of the
\* iteration, the exception leaves the loop
CrawlThrow ==
    /\ sPc = "crawl"
    /\ sFrontier > 0
    /\ sPc' = "catch"
    /\ UNCHANGED <<sRawUrl, sBrowser, sEvents, sEnded, sConnected, sFrontier, sNavs, sItems,
                   sBatches, sAttempt, sReport, sCalls>>

\* the numbers of items the three maps may hold at the end of the crawl: none, one
\* batch, and up to MaxBatches batches, full or not
ItemCounts ==
    {0, 1} \cup {k * BATCH_SIZE : k \in 1..MaxBatches}
           \cup {k * BATCH_SIZE + 1 : k \in 1..(MaxBatches - 1)}

\* the loop ends: "Crawl complete", "Submitting all findings"; allItemsToAnalyze is built
CrawlComplete ==
    /\ sPc = "crawl"
    /\ sFrontier = 0
    /\ sEvents' = sEvents \o <<"log", "log">>
    /\ sItems' \in ItemCounts
    /\ sPc' = "items"
    /\ UNCHANGED <<sRawUrl, sBrowser, sEnded, sConnected, sFrontier, sNavs, sBatches,
                   sAttempt, sReport, sCalls>>

\* if (allItemsToAnalyze.length === 0) { sendEvent(result); return; }
SendEmptyResult ==
    /\ sPc = "items"
    /\ sItems = 0
    /\ sendEvent("result")
    /\ sPc' = "finally"
    /\ UNCHANGED <<sRawUrl, sBrowser, sEnded, sConnected, sFrontier, sNavs, sItems, sBatches,
                   sAttempt, sReport, sCalls>>

\* for (let i = 0; i < allItemsToAnalyze.length; i += BATCH_SIZE) batches.push(slice(i, i + BATCH_SIZE))
\* the items are numbered from 1; a batch is the interval of its items
\* the same with slice(i, i + BATCH_SIZE + 1): a batch takes the first item of the next
RECURSIVE batchesFromOverlapping(_, _)
batchesFromOverlapping(i, n) ==
    IF i < n
    THEN <<[first |-> i + 1,
            last |-> IF i + BATCH_SIZE + 1 < n THEN i + BATCH_SIZE + 1 ELSE n]>>
           \o batchesFromOverlapping(i + BATCH_SIZE, n)
    ELSE <<>>

RECURSIVE batchesFrom(_, _)
batchesFrom(i, n) ==
    IF i < n
    THEN <<[first |-> i + 1, last |-> IF i + BATCH_SIZE < n THEN i + BATCH_SIZE ELSE n]>>
           \o batchesFrom(i + BATCH_SIZE, n)
    ELSE <<>>
batches == batchesFrom(0, sItems)

StartAnalysis ==
    /\ sPc = "items"
    /\ sItems > 0
    /\ sPc' = "analyze"
    /\ UNCHANGED <<sRawUrl, sBrowser, sEvents, sEnded, sConnected, sFrontier, sNavs, sItems,
                   sBatches, sAttempt, sReport, sCalls>>

\* what one attempt of analyzeBatch meets: an answer that parses, a rejected call, an
\* empty text, a text that is not JSON, a block by the safety settings
AttemptOutcomes == {"answered", "rejects", "empty text", "invalid JSON", "blocked"}

\* the same with the rethrow at attempt === maxRetries + 1
AnalyzeAttemptOneMore(outcome) ==
    /\ sPc = "analyze"
    /\ IF sAttempt = 0 THEN sendEvent("log") ELSE UNCHANGED sEvents
    /\ IF outcome = "answered"
       THEN /\ sBatches' = Append(sBatches, "answered")
            /\ sAttempt' = 0
            /\ sPc' = IF Len(sBatches') = Len(batches) THEN "compliance" ELSE "analyze"
       ELSE IF outcome = "blocked"
       THEN /\ sBatches' = Append(sBatches, "blocked")
            /\ sPc' = "catch"
            /\ UNCHANGED sAttempt
       ELSE IF sAttempt = maxRetries + 1
       THEN /\ sBatches' = Append(sBatches, "failed")
            /\ sPc' = "catch"
            /\ UNCHANGED sAttempt
       ELSE /\ sAttempt' = sAttempt + 1
            /\ UNCHANGED <<sBatches, sPc>>
    /\ sCalls' = IF sAttempt = 0 THEN <<outcome>> ELSE Append(sCalls, outcome)
    /\ UNCHANGED <<sRawUrl, sBrowser, sEnded, sConnected, sFrontier, sNavs, sItems, sReport>>

\* one attempt of analyzeBatch(batch, index) in for (const [index, batch] of
\* batches.entries()): an answer is pushed to aggregatedAnalysis; a block is rethrown
\* at once; any other failure is retried after a pause until attempt === maxRetries,
\* then rethrown; nothing catches it before catch (error) of the handler
AnalyzeAttempt(outcome) ==
    /\ sPc = "analyze"
    /\ IF sAttempt = 0 THEN sendEvent("log") ELSE UNCHANGED sEvents
    /\ IF outcome = "answered"
       THEN /\ sBatches' = Append(sBatches, "answered")
            /\ sAttempt' = 0
            /\ sPc' = IF Len(sBatches') = Len(batches) THEN "compliance" ELSE "analyze"
       ELSE IF outcome = "blocked"
       THEN /\ sBatches' = Append(sBatches, "blocked")
            /\ sPc' = "catch"
            /\ UNCHANGED sAttempt
       ELSE IF sAttempt = maxRetries
       THEN /\ sBatches' = Append(sBatches, "failed")
            /\ sPc' = "catch"
            /\ UNCHANGED sAttempt
       ELSE /\ sAttempt' = sAttempt + 1
            /\ UNCHANGED <<sBatches, sPc>>
    /\ sCalls' = IF sAttempt = 0 THEN <<outcome>> ELSE Append(sCalls, outcome)
    /\ UNCHANGED <<sRawUrl, sBrowser, sEnded, sConnected, sFrontier, sNavs, sItems, sReport>>

\* the answer of the oracle for one item of an answered batch
OracleAnswer ==
    [has |-> TRUE, category |-> ANALYTICS, complianceStatus |-> COMPLIANT,
     isTracker |-> FALSE, remediation |-> NoActionNeeded]

\* analysisMap.get(key) for the item numbered i: the entry its batch pushed, if any
analysisOf(i) ==
    LET b == CHOOSE k \in 1..Len(batches) : batches[k].first <= i /\ i <= batches[k].last
    IN IF b <= Len(sBatches) /\ sBatches[b] = "answered" THEN OracleAnswer ELSE NoAnalysis

\* the category reported for each item: analyzed?.category || CookieCategory.UNKNOWN
reportedCategories == [i \in 1..sItems |-> aiCategory(analysisOf(i))]

\* the compliance call is answered: "Finalizing", the lists are assembled, the result
\* event is sent
ComplianceOk ==
    /\ sPc = "compliance"
    /\ sReport' = reportedCategories
    /\ sEvents' = sEvents \o <<"log", "result">>
    /\ sPc' = "finally"
    /\ UNCHANGED <<sRawUrl, sBrowser, sEnded, sConnected, sFrontier, sNavs, sItems, sBatches,
                   sAttempt, sCalls>>

\* the compliance call rejects, answers an empty text or a text JSON.parse refuses
ComplianceFail ==
    /\ sPc = "compliance"
    /\ sendEvent("log")
    /\ sPc' = "catch"
    /\ UNCHANGED <<sRawUrl, sBrowser, sEnded, sConnected, sFrontier, sNavs, sItems, sBatches,
                   sAttempt, sReport, sCalls>>

\* catch (error): sendEvent({ type: 'error', ... })
CatchError ==
    /\ sPc = "catch"
    /\ sendEvent("error")
    /\ sPc' = "finally"
    /\ UNCHANGED <<sRawUrl, sBrowser, sEnded, sConnected, sFrontier, sNavs, sItems, sBatches,
                   sAttempt, sReport, sCalls>>

\* the same without the close of the browser
FinallyEndOnly ==
    /\ sPc = "finally"
    /\ sEnded' = TRUE
    /\ sPc' = "done"
    /\ UNCHANGED <<sRawUrl, sBrowser, sEvents, sConnected, sFrontier, sNavs, sItems,
                   sBatches, sAttempt, sReport, sCalls>>

\* finally { if (browser) await browser.close(); res.end(); }
Finally ==
    /\ sPc = "finally"
    /\ sBrowser' = IF sBrowser = "open" THEN "closed" ELSE sBrowser
    /\ sEnded' = TRUE
    /\ sPc' = "done"
    /\ UNCHANGED <<sRawUrl, sEvents, sConnected, sFrontier, sNavs, sItems, sBatches,
                   sAttempt, sReport, sCalls>>

\* the caller closes the connection while the handler runs; the handler registers no
\* 'close' listener on req or res
Disconnect ==
    /\ sPc \in {"launch", "crawl", "items", "analyze", "compliance", "catch", "finally"}
    /\ sConnected
    /\ sConnected' = FALSE
    /\ UNCHANGED <<sPc, sRawUrl, sBrowser, sEvents, sEnded, sFrontier, sNavs, sItems,
                   sBatches, sAttempt, sReport, sCalls>>

ScanStart ==
    /\ CrawlIdle("scan")
    /\ VerdictIdle
    /\ CollectIdle
    /\ ConsentIdle
    /\ TwoIdle
    /\ PureIdle
    /\ sPc = "request"
    /\ sRawUrl \in RawUrls
    /\ sBrowser = "none"
    /\ sEvents = <<>>
    /\ sEnded = FALSE
    /\ sConnected = TRUE
    /\ sFrontier = 0
    /\ sNavs = 0
    /\ sItems = 0
    /\ sBatches = <<>>
    /\ sAttempt = 0
    /\ sCalls = <<>>
    /\ sReport = <<>>

ScanStep ==
    \/ ValidateRequest
    \/ LaunchOk
    \/ LaunchFail
    \/ NewPageFail
    \/ CrawlPage
    \/ CrawlThrow
    \/ CrawlComplete
    \/ SendEmptyResult
    \/ StartAnalysis
    \/ \E outcome \in AttemptOutcomes : AnalyzeAttempt(outcome)
    \/ ComplianceOk
    \/ ComplianceFail
    \/ CatchError
    \/ Finally
    \/ Disconnect

ScanNext ==
    ScanStep /\ UNCHANGED <<crawlVars, verdictVars, collectVars, consentVars, twoVars, pureVars>>

SpecScan == ScanStart /\ [][ScanNext]_vars

\* every awaited call settles: puppeteer.launch, page.goto and the other browser calls
\* have timeouts, the pauses between attempts are timers
SpecScanLive == SpecScan /\ WF_vars(ScanNext)

(***************************************************************************)
(* SpecTwo: two scan requests interleaved at their awaits                  *)
(***************************************************************************)
TwoPages == 2           \* largest page budget of the two requests

Scans == {1, 2}
ShopHost == <<"shop", ".", "other", ".", "net">>
\* the entry URL of each request: two sites
EntryUrl(scan) == IF scan = 1 THEN RootUrl ELSE Url(ShopHost, <<>>, "")

\* the site of an entry URL: its entry page links to its privacy page and to the other
\* site, the privacy page links back; every page sets one cookie of the site
AnchorsOn(url) ==
    IF url.path = <<>>
    THEN <<[href |-> Url(url.host, <<"privacy">>, ""), text |-> {"privacy"}],
           [href |-> Url(IF url.host = WwwHost THEN ShopHost ELSE WwwHost, <<>>, ""),
            text |-> {"partner"}]>>
    ELSE <<[href |-> Url(url.host, <<>>, ""), text |-> {"home"}]>>
CookiesOn(url) ==
    <<[name |-> "sid", domain |-> mainDomainOf(url.host), path |-> "/", expires |-> 100]>>

\* the variables a handler declares for its request: each call of the handler has its own
Closure(scan, budget) ==
    [pc |-> "loop", url |-> EntryUrl(scan), maxPages |-> budget,
     urlsToVisit |-> <<[url |-> EntryUrl(scan), priority |-> 0]>>,
     visitedUrls |-> <<>>, allCookieMap |-> <<>>, processedUrlPatterns |-> NoCounts,
     currentUrl |-> NoUrl,
     report |-> [sent |-> FALSE, pagesScannedCount |-> 0, uniqueCookies |-> <<>>],
     overlapped |-> FALSE]

\* uniqueCookies of the result event: key, states and pagesFound of each record
reportOf(t) ==
    [sent |-> TRUE, pagesScannedCount |-> Len(t.visitedUrls),
     uniqueCookies |-> [i \in 1..Len(t.allCookieMap) |->
                          [key |-> t.allCookieMap[i].key, states |-> t.allCookieMap[i].states,
                           pagesFound |-> t.allCookieMap[i].pageUrls]]]

\* collectPageData and the merge into the cookie map of the request
mergeInto(t, state, next) ==
    [t EXCEPT !.allCookieMap = processItems(@, CookiesOn(t.currentUrl), state, TRUE, t.currentUrl),
              !.pc = next]

\* what the handler of one request does between two awaits, on its own variables
step(t) ==
    CASE t.pc = "loop" ->
            IF Len(t.urlsToVisit) > 0 /\ Len(t.visitedUrls) < t.maxPages
            THEN LET sorted == SortByPriority(t.urlsToVisit)
                     currentItem == Head(sorted)
                     after == AfterDequeueIn(mainDomainOf(t.url.host), currentItem.url,
                                             t.visitedUrls, t.processedUrlPatterns)
                 IN [t EXCEPT !.urlsToVisit = Tail(sorted), !.currentUrl = currentItem.url,
                              !.processedUrlPatterns = after.patterns, !.pc = after.pc]
            ELSE [t EXCEPT !.pc = "done", !.report = reportOf(t)]
      [] t.pc = "goto" ->
            LET visited == SetAdd(t.visitedUrls, t.currentUrl)
            IN [t EXCEPT !.visitedUrls = visited,
                         !.pc = IF Len(visited) = 1 THEN "pre" ELSE "sub"]
      [] t.pc = "pre" -> mergeInto(t, PRE_CONSENT, "rej")
      [] t.pc = "rej" -> mergeInto(t, POST_REJECTION, "acc")
      [] t.pc = "acc" -> mergeInto(t, POST_ACCEPTANCE, "links")
      [] t.pc = "sub" -> mergeInto(t, POST_ACCEPTANCE, "links")
      [] t.pc = "links" ->
            LET links == extractInternalLinksIn(mainDomainOf(t.url.host),
                                                AnchorsOn(t.currentUrl), <<>>)
            IN [t EXCEPT !.urlsToVisit = enqueueLinks(@, links, t.visitedUrls), !.pc = "loop"]
      [] OTHER -> t

Running(t) == t.pc \notin {"done", "error"}
Started(t) == t.pc # "loop" \/ t.visitedUrls # <<>>

\* the same with one visited set for the whole server instead of one per request
TwoStepSharedVisited(scan) ==
    /\ Running(tScans[scan])
    /\ LET next == step(tScans[scan])
       IN tScans' = [x \in Scans |->
                       IF x = scan THEN next
                       ELSE [tScans[x] EXCEPT !.visitedUrls =
                                IF next.visitedUrls # tScans[scan].visitedUrls
                                THEN SetAdd(@, next.currentUrl) ELSE @]]

\* one request advances to its next await; the other request keeps its variables
TwoStep(scan) ==
    /\ Running(tScans[scan])
    /\ tScans' = [tScans EXCEPT ![scan] =
                     [step(@) EXCEPT !.overlapped =
                         @ \/ \E x \in Scans \ {scan} :
                                 Started(tScans[x]) /\ Running(tScans[x])]]

TwoStart ==
    /\ CrawlIdle("two")
    /\ VerdictIdle
    /\ CollectIdle
    /\ ConsentIdle
    /\ ScanIdle
    /\ PureIdle
    /\ \E budgets \in [Scans -> 1..TwoPages] :
          tScans = [scan \in Scans |-> Closure(scan, budgets[scan])]

TwoNext ==
    (\E scan \in Scans : TwoStep(scan))
      /\ UNCHANGED <<crawlVars, verdictVars, collectVars, consentVars, scanVars, pureVars>>

SpecTwo == TwoStart /\ [][TwoNext]_vars

(***************************************************************************)
(* SpecParty: the first/third-party label of a reported cookie             *)
(***************************************************************************)
\* hostnames scanned, and the Domain attribute of the cookies found, as chunks
Registrables ==
    {<<"example", ".", "com">>, <<"other", ".", "net">>, <<"evilexample", ".", "com">>,
     <<"example-cdn", ".", "net">>}
Prefixes == {<<>>, <<"www", ".">>, <<"shop", ".">>, <<"www", ".", "shop", ".">>}
ScannedHostnames ==
    {prefix \o domain : prefix \in Prefixes,
                         domain \in {<<"example", ".", "com">>, <<"other", ".", "net">>}}
CookieDomains ==
    {dot \o prefix \o domain : dot \in {<<>>, <<".">>},
                                prefix \in {<<>>, <<"www", ".">>, <<"shop", ".">>, <<"ads", ".">>},
                                domain \in Registrables}

\* String.prototype.startsWith
StartsWith(str, prefix) == Len(prefix) <= Len(str) /\ SubSeq(str, 1, Len(prefix)) = prefix

\* scannedUrlHostname.replace(/^www\./, '')
StripWww(hostname) ==
    IF StartsWith(hostname, <<"www", ".">>) THEN SubSeq(hostname, 3, Len(hostname)) ELSE hostname

\* party: domain.endsWith(rootDomain) ? 'First' : 'Third', rootDomain being the
\* scanned hostname without a leading "www."
party(scannedUrlHostname, cookieDomain) ==
    LET domain == IF StartsWith(cookieDomain, <<".">>) THEN cookieDomain
                  ELSE <<".">> \o cookieDomain
        rootDomain == <<".">> \o StripWww(scannedUrlHostname)
    IN IF EndsWith(domain, rootDomain) THEN "First" ELSE "Third"

PartyStart ==
    /\ CrawlIdle("party")
    /\ VerdictIdle
    /\ CollectIdle
    /\ ConsentIdle
    /\ ScanIdle
    /\ TwoIdle
    /\ fIn \in [scannedUrlHostname : ScannedHostnames, cookieDomain : CookieDomains]
    /\ fOut = ""

Party ==
    /\ pc = "party"
    /\ fOut = ""
    /\ fOut' = party(fIn.scannedUrlHostname, fIn.cookieDomain)
    /\ UNCHANGED <<crawlVars, verdictVars, collectVars, consentVars, scanVars, twoVars, fIn>>

SpecParty == PartyStart /\ [][Party]_vars

(***************************************************************************)
(* SpecExpiry: getHumanReadableExpiry                                      *)
(***************************************************************************)
\* Date.now() in seconds, and the seconds from now to the expiry of the cookie
Nows == {1000000, 1700000000}
Lifetimes ==
    {-5, 0, 1, 29, 30, 2700, 3599, 3600, 5400, 86399, 86400, 129600, 86400 * 30 - 1,
     86400 * 30, 86400 * 45, 86400 * 365 - 1, 86400 * 365, 86400 * 548}

\* Math.round(a / b) for a >= 0
RoundDiv(a, b) == (2 * a + b) \div (2 * b)

NoExpiry == [text |-> "none", n |-> 0]

\* the same without the test of puppeteerCookie.session
getHumanReadableExpiryByExpiresOnly(puppeteerCookie, now) ==
    LET diffSeconds == puppeteerCookie.expires - now
    IN IF puppeteerCookie.expires = -1 THEN [text |-> "Session", n |-> 0]
       ELSE IF diffSeconds < 0 THEN [text |-> "Expired", n |-> 0]
       ELSE IF diffSeconds < 3600 THEN [text |-> "minutes", n |-> RoundDiv(diffSeconds, 60)]
       ELSE IF diffSeconds < 86400 THEN [text |-> "hours", n |-> RoundDiv(diffSeconds, 3600)]
       ELSE IF diffSeconds < 86400 * 30 THEN [text |-> "days", n |-> RoundDiv(diffSeconds, 86400)]
       ELSE IF diffSeconds < 86400 * 365
       THEN [text |-> "months", n |-> RoundDiv(diffSeconds, 86400 * 30)]
       ELSE [text |-> "years", n |-> RoundDiv(10 * diffSeconds, 86400 * 365)]

\* getHumanReadableExpiry: the text is `${n} ${unit}`; for years n counts tenths of a
\* year (toFixed(1)) and the unit is "year" for at most one year
getHumanReadableExpiry(puppeteerCookie, now) ==
    LET diffSeconds == puppeteerCookie.expires - now
    IN IF puppeteerCookie.session \/ puppeteerCookie.expires = -1
       THEN [text |-> "Session", n |-> 0]
       ELSE IF diffSeconds < 0 THEN [text |-> "Expired", n |-> 0]
       ELSE IF diffSeconds < 3600 THEN [text |-> "minutes", n |-> RoundDiv(diffSeconds, 60)]
       ELSE IF diffSeconds < 86400 THEN [text |-> "hours", n |-> RoundDiv(diffSeconds, 3600)]
       ELSE IF diffSeconds < 86400 * 30 THEN [text |-> "days", n |-> RoundDiv(diffSeconds, 86400)]
       ELSE IF diffSeconds < 86400 * 365
       THEN [text |-> "months", n |-> RoundDiv(diffSeconds, 86400 * 30)]
       ELSE [text |-> "years", n |-> RoundDiv(10 * diffSeconds, 86400 * 365)]

ExpiryStart ==
    /\ CrawlIdle("expiry")
    /\ VerdictIdle
    /\ CollectIdle
    /\ ConsentIdle
    /\ ScanIdle
    /\ TwoIdle
    /\ \E now \in Nows, session \in BOOLEAN :
          \E expires \in {-1} \cup {now + d : d \in Lifetimes} :
             fIn = [puppeteerCookie |-> [session |-> session, expires |-> expires], now |-> now]
    /\ fOut = NoExpiry

Expiry ==
    /\ pc = "expiry"
    /\ fOut = NoExpiry
    /\ fOut' = getHumanReadableExpiry(fIn.puppeteerCookie, fIn.now)
    /\ UNCHANGED <<crawlVars, verdictVars, collectVars, consentVars, scanVars, twoVars, fIn>>

SpecExpiry == ExpiryStart /\ [][Expiry]_vars

(***************************************************************************)
(* SpecGroup: the grouping of the tracker requests by hostname             *)
(***************************************************************************)
MaxTrackers == 3        \* requests the oracle marked as trackers

TrackerHostnames == {"www.google-analytics.com", "connect.facebook.net"}
\* (analyzed.complianceStatus as ComplianceStatus) || ComplianceStatus.UNKNOWN: the
\* cast checks nothing, the string of the oracle is kept
TrackerStatuses == {OrElse(status, UNKNOWN) : status \in OracleStatuses}
TrackerPages == {<<RootUrl>>, <<Url(WwwHost, <<"privacy">>, "")>>}
\* the entries of analyzedTrackersWithInfo
Trackers ==
    {[hostname |-> h, category |-> MARKETING, complianceStatus |-> status,
      remediation |-> OracleText(status), pagesFound |-> pages] :
        h \in TrackerHostnames, status \in TrackerStatuses, pages \in TrackerPages}

\* complianceSeverity[status] || 0
complianceSeverity(status) ==
    CASE status = PRE_CONSENT_VIOLATION -> 3
      [] status = POST_REJECTION_VIOLATION -> 2
      [] status = COMPLIANT -> 1
      [] OTHER -> 0

\* Array.from(new Set([...existing, ...added]))
combinedPages(existing, added) ==
    existing \o SelectSeq(added, LAMBDA page : page \notin Range(existing))

\* body of analyzedTrackersWithInfo.forEach: the first tracker of a hostname makes the
\* entry; a later one adds its pages and, when strictly more severe, replaces the
\* status and the remediation
groupTracker(map, tracker) ==
    IF ~\E i \in 1..Len(map) : map[i].hostname = tracker.hostname
    THEN Append(map, [key |-> tracker.hostname, hostname |-> tracker.hostname,
                      category |-> tracker.category,
                      complianceStatus |-> tracker.complianceStatus,
                      remediation |-> tracker.remediation,
                      pagesFound |-> tracker.pagesFound])
    ELSE [i \in 1..Len(map) |->
            IF map[i].hostname # tracker.hostname THEN map[i]
            ELSE LET existing == map[i]
                     existingSeverity == complianceSeverity(existing.complianceStatus)
                     newSeverity == complianceSeverity(tracker.complianceStatus)
                     more == newSeverity > existingSeverity
                 IN [existing EXCEPT
                       !.pagesFound = combinedPages(@, tracker.pagesFound),
                       !.complianceStatus = IF more THEN tracker.complianceStatus ELSE @,
                       !.remediation = IF more THEN tracker.remediation ELSE @]]

RECURSIVE groupInto(_, _)
groupInto(map, trackers) ==
    IF trackers = <<>> THEN map
    ELSE groupInto(groupTracker(map, Head(trackers)), Tail(trackers))

\* Array.from(groupedTrackersMap.values()) for the given analyzedTrackersWithInfo
uniqueTrackers(trackers) == groupInto(<<>>, trackers)

GroupStart ==
    /\ CrawlIdle("group")
    /\ VerdictIdle
    /\ CollectIdle
    /\ ConsentIdle
    /\ ScanIdle
    /\ TwoIdle
    /\ fIn \in SeqsUpTo(Trackers, MaxTrackers)
    /\ fOut = NotCalled(<<>>)

Group ==
    /\ pc = "group"
    /\ ~fOut.called
    /\ fOut' = Returns(uniqueTrackers(fIn))
    /\ UNCHANGED <<crawlVars, verdictVars, collectVars, consentVars, scanVars, twoVars, fIn>>

SpecGroup == GroupStart /\ [][Group]_vars

(***************************************************************************)
(* SpecDepth: the page budget of a request and the loop it bounds          *)
(***************************************************************************)
MaxSite == 101          \* pages of the largest site

\* JavaScript values of the depth parameter and of the budget: undefined, a number,
\* a string, NaN
JsUndefined == [type |-> "undefined", n |-> 0, s |-> ""]
Num(n) == [type |-> "number", n |-> n, s |-> ""]
Str(str) == [type |-> "string", n |-> 0, s |-> str]
NaN == [type |-> "NaN", n |-> 0, s |-> ""]

\* req.query.depth of GET /api/scan: absent, empty, a tier, another word
QueryDepths == {JsUndefined, Str(""), Str("lite"), Str("medium"), Str("deep"), Str("full")}
\* req.body.scanDepth of POST /api/scan: absent, numbers, a numeric and another string
BodyDepths == {JsUndefined, Num(-3), Num(0), Num(1), Num(5), Num(10), Num(50), Str("5"), Str("deep")}
SiteSizes == {1, MaxSite}
Requests ==
    [handler : {"GET"}, depth : QueryDepths, site : SiteSizes]
      \cup [handler : {"POST"}, depth : BodyDepths, site : SiteSizes]

\* x || d
JsOrElse(x, d) == IF x \in {JsUndefined, Str(""), Num(0), NaN} THEN d ELSE x
\* the number a value converts to in Math.min / Math.max
ToNumber(x) ==
    CASE x.type = "number" -> x
      [] x = Str("5") -> Num(5)
      [] x = Str("") -> Num(0)
      [] OTHER -> NaN
MathMin(a, b) ==
    IF ToNumber(a) = NaN \/ ToNumber(b) = NaN THEN NaN
    ELSE IF ToNumber(a).n <= ToNumber(b).n THEN ToNumber(a) ELSE ToNumber(b)
MathMax(a, b) ==
    IF ToNumber(a) = NaN \/ ToNumber(b) = NaN THEN NaN
    ELSE IF ToNumber(a).n >= ToNumber(b).n THEN ToNumber(a) ELSE ToNumber(b)
\* size < budget: false when the budget is undefined or NaN
LessThan(size, budget) == budget.type = "number" /\ size < budget.n

\* const depthLimits = { lite: 10, medium: 50, deep: 100 }; depthLimits[key]
depthLimits(key) ==
    CASE key = Str("lite") -> Num(10)
      [] key = Str("medium") -> Num(50)
      [] key = Str("deep") -> Num(100)
      [] OTHER -> JsUndefined
\* const maxPages = depthLimits[depth || 'lite']
streamMaxPages(depth) == depthLimits(JsOrElse(depth, Str("lite")))
\* const MAX_PAGES_TO_SCAN = Math.max(1, Math.min(10, scanDepth || 1))
MAX_PAGES_TO_SCAN(scanDepth) == MathMax(Num(1), MathMin(Num(10), JsOrElse(scanDepth, Num(1))))

NoBudget == [pc |-> "request", maxPages |-> JsUndefined, attempted |-> 0]

DepthStart ==
    /\ CrawlIdle("depth")
    /\ VerdictIdle
    /\ CollectIdle
    /\ ConsentIdle
    /\ ScanIdle
    /\ TwoIdle
    /\ fIn \in Requests
    /\ fOut = NoBudget

\* the budget is computed from the depth parameter
PageBudget ==
    /\ fOut.pc = "request"
    /\ fOut' = [fOut EXCEPT !.pc = "loop",
                            !.maxPages = IF fIn.handler = "GET" THEN streamMaxPages(fIn.depth)
                                         ELSE MAX_PAGES_TO_SCAN(fIn.depth)]

\* while (urlsToVisit.length > 0 && visitedUrls.size < maxPages) on a site whose every
\* page loads and links to the next: one more page is attempted and visited
BudgetedVisit ==
    /\ fOut.pc = "loop"
    /\ fOut.attempted < fIn.site
    /\ LessThan(fOut.attempted, fOut.maxPages)
    /\ fOut' = [fOut EXCEPT !.attempted = @ + 1]

BudgetedExit ==
    /\ fOut.pc = "loop"
    /\ ~(fOut.attempted < fIn.site /\ LessThan(fOut.attempted, fOut.maxPages))
    /\ fOut' = [fOut EXCEPT !.pc = "done"]

DepthNext ==
    /\ pc = "depth"
    /\ PageBudget \/ BudgetedVisit \/ BudgetedExit
    /\ UNCHANGED <<crawlVars, verdictVars, collectVars, consentVars, scanVars, twoVars, fIn>>

SpecDepth == DepthStart /\ [][DepthNext]_vars

(***************************************************************************)
(* Properties of the verdict (SpecVerdict)                                 *)
(***************************************************************************)
\* the four priority rules applied to a category and the states observed
RuleStatus(category, states) == finalComplianceStatus(category = NECESSARY, states)

\* C1: a reported record whose category is not NECESSARY and whose states hold both
\* PRE_CONSENT and POST_REJECTION has the status PRE_CONSENT_VIOLATION.
C1_TieBreakPreConsent ==
    (vOut.reported /\ vOut.category # NECESSARY
       /\ {PRE_CONSENT, POST_REJECTION} \subseteq vRec.states)
    => vOut.complianceStatus = PRE_CONSENT_VIOLATION

\* C2: a reported record whose category is NECESSARY is COMPLIANT with the
\* remediation "No action needed.", whatever its states.
C2_NecessaryIsCompliant ==
    (vOut.reported /\ vOut.category = NECESSARY)
    => (vOut.complianceStatus = COMPLIANT /\ vOut.remediation = NoActionNeeded)

\* C3: a reported record whose category is not NECESSARY and whose states hold
\* POST_REJECTION but not PRE_CONSENT has the status POST_REJECTION_VIOLATION.
C3_PostRejectionViolation ==
    (vOut.reported /\ vOut.category # NECESSARY
       /\ POST_REJECTION \in vRec.states /\ PRE_CONSENT \notin vRec.states)
    => vOut.complianceStatus = POST_REJECTION_VIOLATION

\* C4: the status of every reported record, of every kind, is the result of the four
\* rules on its category and states, whatever status the oracle answered.
C4_StatusIsRuleResult ==
    vOut.reported => vOut.complianceStatus = RuleStatus(vOut.category, vRec.states)

\* C5: a record without a usable oracle result is reported with category UNKNOWN and
\* the status the state rules give for a category that is not NECESSARY.
C5_UnknownStillJudgedByStates ==
    (vOut # NoOut /\ ~vAnalyzed.has)
    => (vOut.reported /\ vOut.category = UNKNOWN
          /\ vOut.complianceStatus = finalComplianceStatus(FALSE, vRec.states))

(***************************************************************************)
(* Properties of the aggregation (SpecMerge)                               *)
(***************************************************************************)
AllMaps == <<allCookieMap, allNetworkRequestMap, allLocalStorageMap>>

\* the three merges of one collection under one state and page
MergeAll(maps, c, state, pageUrl) ==
    << processItems(maps[1], c.cookies, state, TRUE, pageUrl),
       processItems(maps[2], c.networkRequests, state, FALSE, pageUrl),
       processLocalStorage(maps[3], c.localStorageItems, state, pageUrl) >>

\* the consent state under which each observing position of the handler merges
StateAt(at) ==
    CASE at = "pre" -> PRE_CONSENT
      [] at = "rej" -> POST_REJECTION
      [] OTHER -> POST_ACCEPTANCE

\* a step that collected the page data and merged it
ObserveStep == pc \in {"pre", "rej", "acc", "sub"} /\ pc' \in {"reject", "reload", "links"}

\* C6: after every merge of the crawl, merging the same collection again under the
\* same state and page leaves all three maps (keys, payloads, states, pages) as they are.
C6_MergeIdempotent ==
    [][ ObserveStep =>
          MergeAll(AllMaps', collected', StateAt(pc), currentUrl) = AllMaps' ]_vars

\* a request URL captured twice during one reload has been merged: one record, one
\* state, one page
C6_Witness ==
    /\ pc = "reject"
    /\ Len(collected.networkRequests) = 2
    /\ collected.networkRequests[1] = collected.networkRequests[2]
    /\ Len(allNetworkRequestMap) = 1
    /\ allNetworkRequestMap[1].states = <<PRE_CONSENT>>
    /\ allNetworkRequestMap[1].pageUrls = <<RootUrl>>

\* every record of map is still in next, with at least its states and pages
Grows(map, next) ==
    \A k \in MapKeys(map) :
        /\ MapHas(next, k)
        /\ Range(MapGet(map, k).states) \subseteq Range(MapGet(next, k).states)
        /\ Range(MapGet(map, k).pageUrls) \subseteq Range(MapGet(next, k).pageUrls)

\* C7: in every step of the crawl each record keeps its key, and its states and pages
\* after the step include those before it.
C7_StatesMonotonic ==
    [][ /\ Grows(allCookieMap, allCookieMap')
        /\ Grows(allNetworkRequestMap, allNetworkRequestMap')
        /\ Grows(allLocalStorageMap, allLocalStorageMap') ]_vars

\* a cookie seen in all three states on the entry page and again on a second page
C7_Witness ==
    /\ Len(allCookieMap) = 1
    /\ Len(allCookieMap[1].states) = 3
    /\ Len(allCookieMap[1].pageUrls) = 2

\* the payload of every record of map is the same in next
KeepsData(map, next) ==
    \A k \in MapKeys(map) : MapHas(next, k) /\ MapGet(next, k).data = MapGet(map, k).data

\* C8: in every step of the crawl the payload of every existing record is unchanged,
\* also when the observation merged for its key carries another payload.
C8_FirstPayloadWins ==
    [][ /\ KeepsData(allCookieMap, allCookieMap')
        /\ KeepsData(allNetworkRequestMap, allNetworkRequestMap')
        /\ KeepsData(allLocalStorageMap, allLocalStorageMap') ]_vars

\* the cookie was first read with one expiry, then merged again with another; the
\* storage item first seen on the entry page was merged again from the second page
C8_Witness ==
    /\ pc = "links"
    /\ Len(allCookieMap) = 1
    /\ Len(collected.cookies) = 1
    /\ cookieKey(collected.cookies[1]) = allCookieMap[1].key
    /\ collected.cookies[1].expires # allCookieMap[1].data.expires
    /\ Len(allCookieMap[1].states) >= 2
    /\ Len(allLocalStorageMap) = 1
    /\ Len(collected.localStorageItems) = 1
    /\ collected.localStorageItems[1].pageUrl # allLocalStorageMap[1].data.pageUrl

(***************************************************************************)
(* Properties of the frontier (Spec)                                       *)
(***************************************************************************)
\* C9: no URL leaves the frontier more than once during a crawl.
C9_NoUrlDequeuedTwice ==
    \A u \in DOMAIN dequeueCount : dequeueCount[u] <= 1

\* C10: a visited URL is never pushed onto the frontier and page.goto is never
\* called for it again.
C10_VisitedNeverRequeued ==
    [][ \A u \in Range(visitedUrls) :
            /\ ~InQueue(urlsToVisit', u)
            /\ CountOf(gotoCount', u) = CountOf(gotoCount, u) ]_vars

\* the page just processed links to a page visited before it
C10_Witness ==
    /\ pc = "loop"
    /\ Len(visitedUrls) = 2
    /\ \E i \in 1..Len(internalLinks) :
          /\ internalLinks[i].href = visitedUrls[1]
          /\ internalLinks[i].href # currentUrl
    /\ CountOf(gotoCount, visitedUrls[1]) = 1

(***************************************************************************)
(* Properties of the crawl: domain, budget, stages (Spec)                  *)
(***************************************************************************)
\* host is the registrable domain of the target site or one of its subdomains
InSite(host) == host = mainDomain \/ EndsWith(host, <<".">> \o mainDomain)

\* C11: every parseable URL on the frontier, whether it came from a page link or from
\* the sitemap, and every URL page.goto was called for, is within the registrable
\* domain of the target site.
C11_OnlySiteUrls ==
    /\ \A i \in 1..Len(urlsToVisit) :
          urlsToVisit[i].url.valid => InSite(urlsToVisit[i].url.host)
    /\ \A u \in DOMAIN gotoCount : InSite(u.host)

\* C12: a navigation starts only from a loop test that found the frontier non-empty
\* and fewer visited pages than the budget; the visited pages and the reported
\* pagesScannedCount never exceed the budget.
C12_PageBudget ==
    [][ /\ pc' = "goto" => (Len(urlsToVisit) > 0 /\ Len(visitedUrls) < maxPages)
        /\ Len(visitedUrls') <= maxPages
        /\ result'.type = "result" => result'.pagesScannedCount <= maxPages ]_vars

\* the budget ended the crawl while URLs were still waiting, and the report counts
\* exactly the budget
C12_Witness ==
    /\ pc = "result"
    /\ maxPages = MaxPages
    /\ result.pagesScannedCount = maxPages
    /\ Len(urlsToVisit) > 0

\* positions of the handler inside the 3-stage sequence
ThreeStagePcs == {"pre", "reject", "rej", "reload", "acc"}
\* the current page is the first page visited
OnFirstPage == Len(visitedUrls) = 1 /\ currentUrl = visitedUrls[1]
\* the states that a step added to the records of a map
AddedStates(map, next) ==
    UNION { Range(MapGet(next, k).states)
              \ (IF MapHas(map, k) THEN Range(MapGet(map, k).states) ELSE {}) :
            k \in MapKeys(next) }

\* C13: the handler is inside the 3-stage sequence only on the first page visited, and
\* a step that adds a state other than POST_ACCEPTANCE to a record is a step on that page.
C13_ThreeStageFirstPageOnly ==
    [][ /\ pc' \in ThreeStagePcs =>
              (Len(visitedUrls') = 1 /\ currentUrl' = visitedUrls'[1])
        /\ \A m \in 1..3 :
              ~(AddedStates(AllMaps[m], AllMaps'[m]) \subseteq {POST_ACCEPTANCE})
                 => OnFirstPage ]_vars

\* the first page was abandoned before its first collection; the cookie of the site was
\* first merged on the second page and holds POST_ACCEPTANCE only
C13_Witness ==
    /\ pc = "links"
    /\ Len(visitedUrls) = 2
    /\ currentUrl = visitedUrls[2]
    /\ Len(allCookieMap) = 1
    /\ allCookieMap[1].states = <<POST_ACCEPTANCE>>
    /\ allCookieMap[1].pageUrls = <<visitedUrls[2]>>

\* the order of the 3-stage sequence
ThreeStageSequence ==
    <<Screenshot, PRE_CONSENT, ClickReject, POST_REJECTION, Reload, ClickAccept, POST_ACCEPTANCE>>
IsPrefix(s, t) == Len(s) <= Len(t) /\ SubSeq(t, 1, Len(s)) = s
\* what the iteration did, without the exception that may have ended it
Performed(log) == SelectSeq(log, LAMBDA e : e # Thrown)

\* C14: whatever the first page has done so far is a prefix of: screenshot, PRE_CONSENT
\* collection, reject, POST_REJECTION collection, reload, accept, POST_ACCEPTANCE
\* collection.
C14_StageOrder ==
    OnFirstPage => IsPrefix(Performed(stageLog), ThreeStageSequence)

\* the first page has gone through the whole sequence
C14_Witness ==
    /\ OnFirstPage
    /\ pc = "links"
    /\ stageLog = ThreeStageSequence
    /\ allCookieMap[1].states = <<PRE_CONSENT, POST_REJECTION, POST_ACCEPTANCE>>

(***************************************************************************)
(* Properties of the crawl of a site without sitemap (SpecEntry)           *)
(***************************************************************************)
\* the crawl loop has been left
CrawlEnded == pc \in {"crawl_done", "result"}
\* exactly the entry page was visited, with the whole 3-stage sequence, and the report
\* counts one page
OnePageThreeStages ==
    /\ visitedUrls = <<RootUrl>>
    /\ Performed(stageLog) = ThreeStageSequence
    /\ pc = "result" => result.pagesScannedCount = 1

FailedUrls == {u \in DOMAIN gotoCount : u \notin Range(visitedUrls)}
\* a step in which page.goto rejects
GotoFailStep == pc = "goto" /\ visitedUrls' = visitedUrls

\* C16: a step in which the navigation fails goes back to the loop test and leaves the
\* three maps as they are, and a URL whose navigation failed is never navigated to again.
C16_FailedVisitAbandoned ==
    [][ /\ GotoFailStep => (pc' = "loop" /\ AllMaps' = AllMaps)
        /\ \A u \in FailedUrls : CountOf(gotoCount', u) = CountOf(gotoCount, u) ]_vars

\* C17: once the navigation to the requested URL has failed no report is sent.
C17_EntryFailureIsFatal ==
    RootUrl \in FailedUrls => result.type # "result"

\* C18: a scan that attempted the root, visited no page and has ended has sent the
\* report with empty lists, pagesScannedCount 0 and the fixed assessment, and has not
\* called the oracle.
C18_ZeroPagesEmptyReport ==
    (pc \in {"result", "error"} /\ Len(visitedUrls) = 0 /\ CountOf(gotoCount, RootUrl) >= 1)
    => (result = Event("result", 0, <<>>, {}, <<>>, NoneDetected) /\ ~oracleCalled)

(***************************************************************************)
(* Properties of collectPageData (SpecCollect) and handleConsent           *)
(* (SpecConsent)                                                           *)
(***************************************************************************)
\* C19: whichever awaited call rejects, a call of collectPageData returns a value to
\* the orchestrator and throws nothing.
C19_CollectorNeverThrows ==
    cOut.called => ~cOut.threw

\* C20: for every page, every set of frames and every outcome of frame.evaluate, a call
\* of handleConsent returns a boolean and throws nothing.
C20_ConsentDriverNeverThrows ==
    hOut.called => (~hOut.threw /\ hOut.value \in BOOLEAN)

\* the main frame is detached, a child frame detaches during the search after its first
\* keyword found nothing, and the call has returned false
C20_Witness ==
    /\ hOut.called
    /\ hPage.mainFrame.detached
    /\ Len(hPage.childFrames) = MaxFrames
    /\ ~hPage.childFrames[1].detached
    /\ hPage.childFrames[1].evaluate[1] = Absent
    /\ hPage.childFrames[1].evaluate[MaxKeywords] = Rejects
    /\ hOut.value = FALSE

(***************************************************************************)
(* Properties of the request handler (SpecScan)                            *)
(***************************************************************************)
ScanOver == sPc \in {"done", "rejected"}
FailedBatches == {b \in 1..Len(sBatches) : sBatches[b] = "failed"}

\* C21: when a classifier batch has failed on all its attempts, the scan still ends
\* with a report: every batch has been submitted, the items of the failed batch are
\* reported with category UNKNOWN and the items of the other batches with the
\* category the oracle gave.
C21_FailedBatchStillReported ==
    (ScanOver /\ FailedBatches # {}) =>
        /\ "result" \in Range(sEvents)
        /\ Len(sBatches) = Len(batches)
        /\ sReport = reportedCategories
        /\ \A b \in FailedBatches :
              \A i \in batches[b].first..batches[b].last : sReport[i] = UNKNOWN

\* C22: the browser session is always released: once launched, the browser is
\* eventually closed on every path, and the response is never ended while the
\* browser is still open.
C22_BrowserAlwaysReleased ==
    /\ [](sEnded => sBrowser # "open")
    /\ (sBrowser = "open") ~> (sBrowser = "closed")

\* a scan that failed after the launch has ended with its browser closed
C22_Witness == sPc = "done" /\ sBrowser = "closed" /\ "error" \in Range(sEvents)

TerminalEvents == {i \in 1..Len(sEvents) : sEvents[i] \in {"result", "error"}}

\* C23: every scan request ends with exactly one terminal event, a result or an
\* error: at any time at most one has been sent and nothing was sent after it, and
\* when the handler is over exactly one has been sent and the response is ended.
C23_ExactlyOneTerminalEvent ==
    /\ Cardinality(TerminalEvents) <= 1
    /\ TerminalEvents \subseteq {Len(sEvents)}
    /\ ScanOver => (Cardinality(TerminalEvents) = 1 /\ sEnded)

\* C24: once the caller has disconnected the crawl loop navigates to no further
\* frontier entry, and the scan does not end with its browser open.
C24_DisconnectStopsCrawl ==
    /\ [][~sConnected => sNavs' = sNavs]_vars
    /\ [](ScanOver => sBrowser # "open")

(***************************************************************************)
(* Two concurrent requests (SpecTwo)                                       *)
(***************************************************************************)
\* the request run alone, from its start to its end
RECURSIVE RunAlone(_)
RunAlone(t) == IF Running(t) THEN RunAlone(step(t)) ELSE t

OwnUrl(scan, url) == url.valid /\ EndsWith(url.host, mainDomainOf(EntryUrl(scan).host))

RegistrableOf(hostname) ==
    mainDomainOf(IF StartsWith(hostname, <<".">>) THEN Tail(hostname) ELSE hostname)

\* C26: a cookie whose domain is the registrable domain of the scanned site or a
\* subdomain of it is reported First, a cookie under another registrable domain is
\* reported Third, whatever subdomain prefix the scanned hostname has.
C26_PartyByRegistrableDomain ==
    (pc = "party" /\ fOut # "") =>
        fOut = IF RegistrableOf(fIn.cookieDomain) = RegistrableOf(fIn.scannedUrlHostname)
               THEN "First" ELSE "Third"

ExpiryBucket(d) ==
    IF d < 3600 THEN "minutes"
    ELSE IF d < 86400 THEN "hours"
    ELSE IF d < 86400 * 30 THEN "days"
    ELSE IF d < 86400 * 365 THEN "months"
    ELSE "years"

\* C27: a session cookie (session flag set or expires = -1) is reported "Session";
\* a cookie expiring d >= 0 seconds from now is reported in the bucket of the first
\* threshold d is below (minutes, hours, days, months, years), and now + 45 min gives
\* "45 minutes".
C27_ExpiryBuckets ==
    (pc = "expiry" /\ fOut # NoExpiry) =>
        LET cookie == fIn.puppeteerCookie
            d == cookie.expires - fIn.now
        IN IF cookie.session \/ cookie.expires = -1 THEN fOut.text = "Session"
           ELSE /\ d >= 0 => fOut.text = ExpiryBucket(d)
                /\ d = 2700 => fOut = [text |-> "minutes", n |-> 45]

\* a cookie with the session flag and a cookie expiring in 45 minutes have been labelled
C27_Witness ==
    /\ pc = "expiry"
    /\ fOut # NoExpiry
    /\ \/ fIn.puppeteerCookie.session /\ fIn.puppeteerCookie.expires # -1
       \/ ~fIn.puppeteerCookie.session /\ fIn.puppeteerCookie.expires - fIn.now = 86400 * 30

(***************************************************************************)
(* Properties of collectPageData and handleConsent, continued              *)
(***************************************************************************)
\* C28: after collectPageData has finished, by returning or by throwing, the request
\* listener it registered is no longer attached to the page.
C28_ListenerAlwaysRemoved == cOut.called => cListeners = 0

\* the keywords that match an element in some frame of the page
MatchingKeywords ==
    {k \in 1..MaxKeywords :
        \/ (k \in DOMAIN hPage.mainFrame.evaluate
              /\ hPage.mainFrame.evaluate[k] \in {Clicked, ClickedNotIdle})
        \/ \E f \in 1..Len(hPage.childFrames) :
              /\ ~hPage.childFrames[f].detached
              /\ hPage.childFrames[f].evaluate[k] \in {Clicked, ClickedNotIdle}}
ClickCalls == {i \in 1..Len(hCalls) : hCalls[i].clicked}

\* C29: the keywords are tried in list order and, for each keyword, the main frame
\* before the child frames; hence the element clicked matches the earliest keyword
\* of the list that matches in any frame of the page.
C29_EarliestKeywordClicked ==
    hOut.called =>
        /\ \A i, j \in 1..Len(hCalls) :
              /\ (hCalls[i].frame = hCalls[j].frame /\ hCalls[i].keyword < hCalls[j].keyword)
                    => i < j
              /\ (hCalls[i].keyword = hCalls[j].keyword /\ hCalls[i].frame < hCalls[j].frame)
                    => i < j
        /\ \A i \in ClickCalls : \A k \in MatchingKeywords : hCalls[i].keyword <= k

BatchesOf(i) == {k \in 1..Len(batches) : batches[k].first <= i /\ i <= batches[k].last}
BatchLength(k) == batches[k].last - batches[k].first + 1

\* C31: the batches built from allItemsToAnalyze are a partition of it: every item is
\* in exactly one batch, no batch is empty or longer than BATCH_SIZE, every batch but
\* the last has exactly BATCH_SIZE items; and when the result event is sent, every
\* batch was submitted and answered once
C31_BatchingIsPartition ==
    sItems > 0 =>
        /\ \A i \in 1..sItems : Cardinality(BatchesOf(i)) = 1
        /\ \A k \in 1..Len(batches) :
              /\ 1 <= batches[k].first /\ batches[k].last <= sItems
              /\ 1 <= BatchLength(k) /\ BatchLength(k) <= BATCH_SIZE
              /\ k < Len(batches) => BatchLength(k) = BATCH_SIZE
        /\ Len(sBatches) <= Len(batches)
        /\ sPc = "compliance" => Len(sBatches) = Len(batches)

\* two batches, the last with a single item, both submitted
C31_Witness ==
    /\ sItems = BATCH_SIZE + 1
    /\ sPc = "compliance"
    /\ Len(batches) = 2
    /\ BatchLength(2) = 1


\* an analyzeBatch call is between two of its attempts
InAnalyzeBatch == sPc = "analyze" /\ sAttempt > 0
LastCall == sCalls[Len(sCalls)]

\* C32: an analyzeBatch call makes at most maxRetries + 1 generateContent calls; every
\* call but its last one failed without being blocked, so a retry follows only a
\* failed attempt and a blocked response is never retried; the call ends by returning
\* the answer of its last attempt, or by throwing on a block or on the failure of
\* attempt maxRetries + 1; and every analyzeBatch call that has begun ends
C32_BoundedRetry ==
    /\ [](/\ Len(sCalls) <= maxRetries + 1
          /\ \A i \in 1..(Len(sCalls) - 1) : sCalls[i] \notin {"answered", "blocked"}
          /\ InAnalyzeBatch =>
                /\ Len(sCalls) = sAttempt
                /\ LastCall \notin {"answered", "blocked"}
          /\ (~InAnalyzeBatch /\ sCalls # <<>>) =>
                /\ sBatches # <<>>
                /\ LastCall = "answered" <=> sBatches[Len(sBatches)] = "answered"
                /\ LastCall = "blocked" <=> sBatches[Len(sBatches)] = "blocked"
                /\ LastCall \notin {"answered", "blocked"} =>
                      /\ sBatches[Len(sBatches)] = "failed"
                      /\ Len(sCalls) = maxRetries + 1)
    /\ \A n \in 0..(MaxBatches - 1) :
          (sPc = "analyze" /\ Len(sBatches) = n) ~> (Len(sBatches) = n + 1)

\* two failed attempts, the third answered
C32_Witness ==
    /\ Len(sCalls) = maxRetries + 1
    /\ sCalls[1] = "rejects"
    /\ sCalls[2] = "invalid JSON"
    /\ LastCall = "answered"
    /\ sBatches = <<"answered">>


(***************************************************************************)
(* Properties of the frontier (Spec)                                       *)
(***************************************************************************)
OfPriority(q, p) == SelectSeq(q, LAMBDA e : e.priority = p)
DequeueStep == pc = "loop" /\ dequeueCount' # dequeueCount

\* C33: the entries of one priority leave the frontier in the order they were pushed
\* (a step appends to them or removes their first); the entry a dequeue removes has
\* the smallest priority on the frontier and is the first pushed of that priority, and
\* every other entry stays; so an entry of priority 2 is taken only when no entry of
\* priority 0 or 1 waits
C33_FrontierOrdering ==
    [][/\ \A p \in 0..2 :
             \/ IsPrefix(OfPriority(urlsToVisit, p), OfPriority(urlsToVisit', p))
             \/ OfPriority(urlsToVisit', p) = Tail(OfPriority(urlsToVisit, p))
       /\ DequeueStep =>
             \E i \in 1..Len(urlsToVisit) :
                /\ urlsToVisit[i].url = currentUrl'
                /\ \A j \in 1..Len(urlsToVisit) :
                      /\ urlsToVisit[j].priority >= urlsToVisit[i].priority
                      /\ j < i => urlsToVisit[j].priority > urlsToVisit[i].priority
                /\ Range(urlsToVisit') = Range(urlsToVisit) \ {urlsToVisit[i]}
                /\ Len(urlsToVisit') = Len(urlsToVisit) - 1
                /\ urlsToVisit[i].priority = 2 =>
                      \A j \in 1..Len(urlsToVisit') : urlsToVisit'[j].priority = 2
      ]_vars

\* the privacy page (priority 1) is navigated while a page of priority 2 waits
C33_Witness ==
    /\ pc = "goto"
    /\ currentUrl = Url(WwwHost, <<"privacy">>, "")
    /\ Len(visitedUrls) = 1
    /\ \E i \in 1..Len(urlsToVisit) : urlsToVisit[i].priority = 2


\* C34: in a scan whose sitemap discovery failed or found nothing, the discovery step
\* sends no error and leaves the frontier with the requested URL at priority 0 alone;
\* the loop then takes that URL first and navigates to it, and every entry that joins
\* the frontier later is a link of a visited page (priority 1 or 2)
C34_SitemapFailureDegrades ==
    [][/\ pc = "sitemap" =>
             /\ pc' = "loop"
             /\ result' = NoResult
             /\ urlsToVisit' = <<[url |-> RootUrl, priority |-> 0]>>
             /\ LoopGuard'
       /\ (DequeueStep /\ dequeueCount = NoCounts) =>
             /\ currentUrl' = RootUrl
             /\ pc' = "goto"
       /\ pc # "sitemap" =>
             \A i \in 1..Len(urlsToVisit') :
                \/ urlsToVisit'[i] \in Range(urlsToVisit)
                \/ /\ urlsToVisit'[i].priority \in {1, 2}
                   /\ urlsToVisit'[i].url \in {l.href : l \in Range(internalLinks')}
      ]_vars

\* after a discovery that gave nothing, a page found by a link is navigated
C34_Witness ==
    /\ pc = "goto"
    /\ visitedUrls = <<RootUrl>>
    /\ currentUrl.path = <<"jobs", "1">>
    /\ urlsToVisit = <<>>


\* C35: the flag of a report is true exactly when a consent action on the first visited
\* page clicked an element; it is false while no page has been visited; and it changes
\* only in the reject step of the first visited page
C35_BannerFlagIffClicked ==
    /\ [](/\ result.type = "result" => (consentBannerFound <=> consentClicks # {})
          /\ visitedUrls = <<>> => ~consentBannerFound)
    /\ [][consentBannerFound' # consentBannerFound =>
             pc = "reject" /\ Len(visitedUrls) = 1]_vars


(***************************************************************************)
(* Properties of the canonical records (SpecMerge)                         *)
(***************************************************************************)
\* a record of one of the three maps has at least one consent state and at least one
\* page, and its pages are visited URLs
ObservedOnVisitedPages(r) ==
    /\ r.states # <<>>
    /\ Range(r.states) \subseteq {PRE_CONSENT, POST_REJECTION, POST_ACCEPTANCE}
    /\ r.pageUrls # <<>>
    /\ Range(r.pageUrls) \subseteq Range(visitedUrls)

\* C36: in every state of a crawl every record of the three maps has at least one
\* consent state and at least one page, and every page of a record is a visited URL
C36_RecordsObservedOnVisitedPages ==
    /\ \A i \in 1..Len(allCookieMap) : ObservedOnVisitedPages(allCookieMap[i])
    /\ \A i \in 1..Len(allNetworkRequestMap) : ObservedOnVisitedPages(allNetworkRequestMap[i])
    /\ \A i \in 1..Len(allLocalStorageMap) : ObservedOnVisitedPages(allLocalStorageMap[i])

\* a cookie, a request and a storage item recorded, the cookie on two pages
C36_Witness ==
    /\ \E r \in Range(allCookieMap) : Len(r.pageUrls) = 2 /\ Len(r.states) = 3
    /\ allNetworkRequestMap # <<>>
    /\ allLocalStorageMap # <<>>


(***************************************************************************)
(* Termination of the crawl loop (SpecLive)                                *)
(***************************************************************************)
\* C37: when every awaited call settles, the crawl loop ends by its own test: the
\* handler reaches the end of the crawl with the frontier empty or the budget reached
C37_CrawlTerminates == <>(pc = "crawl_done" /\ ~LoopGuard)


\* C38: a dequeued entry that does not parse as an absolute URL is skipped: the loop
\* goes on with the next entry, and no error event is sent
C38_UnparseableEntrySkipped ==
    [][(DequeueStep /\ ~currentUrl'.valid) => (pc' = "loop" /\ result' = NoResult)]_vars


(***************************************************************************)
(* Properties of the tracker groups (SpecGroup)                            *)
(***************************************************************************)
TrackersOf(trackers, hostname) == SelectSeq(trackers, LAMBDA t : t.hostname = hostname)
GroupOf(grouped, hostname) == CHOOSE g \in Range(grouped) : g.hostname = hostname
Reordered(trackers, p) == [i \in 1..Len(trackers) |-> trackers[p[i]]]

\* C39: every hostname of a tracker request has one group; the status of the group is
\* the status of one of its requests and no request of the hostname is more severe;
\* its pages are the union of the pages of its requests; and the status and the pages
\* of the group are the same in whatever order the requests are processed
C39_GroupTakesWorstVerdict ==
    fOut.called =>
       \A h \in {fIn[i].hostname : i \in 1..Len(fIn)} :
          LET requests == TrackersOf(fIn, h)
              group == GroupOf(fOut.value, h)
          IN /\ Cardinality({i \in 1..Len(fOut.value) : fOut.value[i].hostname = h}) = 1
             /\ \E i \in 1..Len(requests) : requests[i].complianceStatus = group.complianceStatus
             /\ \A i \in 1..Len(requests) :
                   complianceSeverity(requests[i].complianceStatus)
                      <= complianceSeverity(group.complianceStatus)
             /\ Range(group.pagesFound) =
                   UNION {Range(requests[i].pagesFound) : i \in 1..Len(requests)}
             /\ \A p \in Permutations(1..Len(fIn)) :
                   LET other == GroupOf(uniqueTrackers(Reordered(fIn, p)), h)
                   IN /\ other.complianceStatus = group.complianceStatus
                      /\ Range(other.pagesFound) = Range(group.pagesFound)


(***************************************************************************)
(* Properties of the page budget (SpecDepth)                               *)
(***************************************************************************)
\* C40: whatever the depth parameter, the budget of the loop is a positive integer
\* within the configured bounds (10, 50 or 100 in the streaming handler, 1..10 in the
\* POST handler), and the loop attempts at least the entry URL
C40_BudgetPositive ==
    /\ fOut.pc # "request" =>
          /\ fOut.maxPages.type = "number"
          /\ fOut.maxPages.n >= 1
          /\ fIn.handler = "GET" => fOut.maxPages.n \in {10, 50, 100}
          /\ fIn.handler = "POST" => fOut.maxPages.n \in 1..10
    /\ fOut.pc = "done" => fOut.attempted >= 1

====
